---------------------------- MODULE Spec2Model ----------------------------
(***************************************************************************)
(* A model of djangae's App Engine datastore backend                       *)
(* (djangae/db/backends/appengine/base.py): the unique-constraint side     *)
(* cache, the key derivation, the entity identity, the value codec and the *)
(* DB-API cursor; of the IAP authentication backend                        *)
(* (djangae/contrib/googleauth/backends/iap.py); and of the Google         *)
(* authentication middleware (djangae/contrib/gauth/middleware.py).        *)
(*                                                                         *)
(* Text is modelled as a sequence of one-character strings, so that        *)
(* formatting, joining, slicing and lexicographic comparison are computed  *)
(* the way the Python code computes them.                                  *)
(***************************************************************************)
EXTENDS Integers, Sequences, FiniteSets, TLC

VARIABLES
    cache,      \* the side cache: cache key -> entity snapshot
    lastCall,   \* the most recent call on the cache helpers and its outcome
    prevCall,   \* the call before it
    calls       \* number of calls and expiries so far

VARIABLES
    store,      \* the datastore: id -> entity, for one kind
    written,    \* every entity snapshot whose store write succeeded
    cmd,        \* the command Cursor.execute is running
    pc,         \* "idle", or "run" while a command executes
    cursor,     \* the Cursor's fields (and its connection's queries)
    lastExec,   \* how the last Cursor.execute ended
    executes    \* number of Cursor.execute calls so far

cacheVars == <<lastCall, prevCall, calls>>
VARIABLES
    select,     \* the SelectCommand the cursor last executed: its results
    fetched,    \* the last fetchone / next / fetchmany call and what it returned
    delivered,  \* every row the fetch calls have returned since the last execute
    fetches     \* number of fetch calls so far

VARIABLES
    kmodel,     \* generate_unique_key: the model
    parts,      \* generate_unique_key: the fields_and_values list, in call order
    unique_key, \* the key generate_unique_key returned for parts
    first_key   \* the key it returned for the first ordering of the same pairs

VARIABLES
    mmodel,     \* the model an instance is written and looked up for
    pk,         \* the primary key value of the instance
    entityOut,  \* what django_instance_to_entity produced for it
    lookupOut   \* what prep_lookup_key produced for it

VARIABLES
    emodel,     \* django_instance_to_entity: the model of the instance
    evalues,    \* the value each field of the instance resolves to, by column
    registry,   \* the special indexes registered for each column
    built       \* what django_instance_to_entity made of the instance

VARIABLES
    use_tz,     \* settings.USE_TZ
    cfield,     \* the field a value is written and read for
    cvalue,     \* the typed value given to value_for_db
    native,     \* what value_for_db returned: the stored form
    readback,   \* what convert_values returned for the stored form
    rawread     \* what convert_values returned for the same instant as a raw integer

VARIABLES
    users,        \* the User table, in primary key order
    iap_request,  \* the request of the last IAPBackend.authenticate call
    iap_before,   \* the User table as that call found it
    iap_result,   \* what the call returned or raised
    returned_for, \* for each IAP id, the user first returned for it (0: none yet)
    auths         \* number of authenticate calls so far

VARIABLES
    mw_session,   \* the session: the user it was logged in as and with which backend
    mw_users,     \* the Django users, by username
    mw_call,      \* the last process_request call: what it was given and what it did
    requests      \* number of process_request calls so far

cmdVars == <<store, written, cmd, pc, lastExec, executes>>
fetchVars == <<select, fetched, delivered, fetches>>
keyVars == <<kmodel, parts, unique_key, first_key>>
mapperVars == <<mmodel, pk, entityOut, lookupOut>>
entityVars == <<emodel, evalues, registry, built>>
codecVars == <<use_tz, cfield, cvalue, native, readback, rawread>>
iapVars == <<users, iap_request, iap_before, iap_result, returned_for, auths>>
mwVars == <<mw_session, mw_users, mw_call, requests>>
moreVars == <<entityVars, codecVars, iapVars, mwVars>>

vars == <<cache, lastCall, prevCall, calls, store, written, cmd, pc, cursor, lastExec,
          executes, select, fetched, delivered, fetches, kmodel, parts, unique_key, first_key,
          mmodel, pk, entityOut, lookupOut, emodel, evalues, registry, built,
          use_tz, cfield, cvalue, native, readback, rawread,
          users, iap_request, iap_before, iap_result, returned_for, auths,
          mw_session, mw_users, mw_call, requests>>

----------------------------------------------------------------------------
(* Bounds of the model *)

MaxCalls == 2
MaxRows == 2
MaxExecutes == 3
MaxSelects == 2
MaxFetches == 3
MaxSize == 3
MaxParts == 3
MaxKeyLen == 600
MaxDays == 2
MaxUsers == 2
MaxAuths == 3
MaxRequests == 2

----------------------------------------------------------------------------
(* Text *)

\* The characters used by the model, in code point order.
Alphabet ==
    << "-", ".", "0", "1", "2", "3", "4", "5", "6", "7", "8", "9", ":", "@",
       "B", "N", "_",
       "a", "b", "c", "d", "e", "f", "g", "h", "i", "j", "k", "l", "m",
       "n", "o", "p", "q", "r", "s", "t", "u", "v", "w", "x", "y", "z",
       "|" >>

Ord(c) == CHOOSE i \in 1..Len(Alphabet) : Alphabet[i] = c

\* Python's ordering of two texts: a < b.
RECURSIVE StrLess(_, _)
StrLess(a, b) ==
    IF b = <<>> THEN FALSE
    ELSE IF a = <<>> THEN TRUE
    ELSE IF Head(a) = Head(b) THEN StrLess(Tail(a), Tail(b))
    ELSE Ord(Head(a)) < Ord(Head(b))

\* The text of each name the model uses.
Chars(name) ==
    CASE name = "app"    -> << "a", "p", "p" >>
      [] name = "user"   -> << "u", "s", "e", "r" >>
      [] name = "base"   -> << "b", "a", "s", "e" >>
      [] name = "child"  -> << "c", "h", "i", "l", "d" >>
      [] name = "id"     -> << "i", "d" >>
      [] name = "email"  -> << "e", "m", "a", "i", "l" >>
      [] name = "org_id" -> << "o", "r", "g", "_", "i", "d" >>
      [] name = "name"   -> << "n", "a", "m", "e" >>
      [] name = "None"   -> << "N", "o", "n", "e" >>

Digits == << "0", "1", "2", "3", "4", "5", "6", "7", "8", "9" >>

\* str(n) for a natural number n.
RECURSIVE IntToStr(_)
IntToStr(n) ==
    IF n < 10 THEN << Digits[n + 1] >>
    ELSE IntToStr(n \div 10) \o << Digits[(n % 10) + 1] >>

----------------------------------------------------------------------------
(* Python values: None, an int, or a text *)

None      == [t |-> "none", i |-> 0, s |-> <<>>]
IntVal(n) == [t |-> "int",  i |-> n, s |-> <<>>]
StrVal(x) == [t |-> "str",  i |-> 0, s |-> x]
\* an iterator over query results (an object, always true)
IterVal   == [t |-> "iter", i |-> 0, s |-> <<>>]
\* a float: a value that is neither an int nor a text
FloatVal(n) == [t |-> "float", i |-> n, s |-> <<>>]

\* bool(value)
Truthy(v) ==
    CASE v.t = "none" -> FALSE
      [] v.t = "int"  -> v.i # 0
      [] v.t = "str"  -> v.s # <<>>
      [] v.t = "iter" -> TRUE
      [] v.t = "float" -> v.i # 0
      [] v.t = "decimal" -> v.i # 0
      [] v.t \in { "bytestr", "Text", "Blob", "list" } -> v.s # <<>>
      [] OTHER -> TRUE

\* a or b
Or(a, b) == IF Truthy(a) THEN a ELSE b

\* '%s' % value
FormatValue(v) ==
    CASE v.t = "none" -> Chars("None")
      [] v.t = "int"  -> IntToStr(v.i)
      [] v.t = "str"  -> v.s

----------------------------------------------------------------------------
(* Models (django Options) and entities (datastore.Entity) *)

Field(n, c, u, p, cls) ==
    [name |-> n, column |-> c, unique |-> u, primary_key |-> p, class |-> cls]

\* A model with a unique field, a unique_together pair and a foreign key whose
\* column differs from its field name.
UserModel ==
    [ app_label |-> "app", db_table |-> "user", abstract |-> FALSE,
      parents |-> <<>>,
      fields |-> << Field("id", "id", TRUE, TRUE, "AutoField"),
                    Field("email", "email", TRUE, FALSE, "EmailField"),
                    Field("org", "org_id", FALSE, FALSE, "ForeignKey"),
                    Field("name", "name", FALSE, FALSE, "CharField") >>,
      unique_together |-> << << "org", "name" >> >> ]

\* A child of a concrete parent: its kind is the parent's table.
ChildModel ==
    [ app_label |-> "app", db_table |-> "child", abstract |-> FALSE,
      parents |-> << [db_table |-> "base", has_parents |-> FALSE, abstract |-> FALSE] >>,
      fields |-> << Field("id", "id", TRUE, TRUE, "AutoField"),
                    Field("email", "email", TRUE, FALSE, "EmailField"),
                    Field("org", "org_id", FALSE, FALSE, "ForeignKey"),
                    Field("name", "name", FALSE, FALSE, "CharField") >>,
      unique_together |-> << << "org", "name" >> >> ]

\* model._meta.get_field(y)
get_field(model, y) ==
    model.fields[CHOOSE i \in 1..Len(model.fields) : model.fields[i].name = y]

\* model._meta.pk.column
pk_column(model) ==
    model.fields[CHOOSE i \in 1..Len(model.fields) : model.fields[i].primary_key].column

\* An entity: its key's id_or_name() and its properties.
Entity(k, p) == [key |-> k, props |-> p]

NoProps == [x \in {} |-> None]

\* No entity (Python's None where an entity is expected).
NoEntity == Entity(None, NoProps)

\* x in entity
Has(entity, x) == x \in DOMAIN entity.props

----------------------------------------------------------------------------
(* The unique-constraint cache helpers *)

\* get_datastore_kind: the table of the first concrete root parent, if any.
get_datastore_kind(model) ==
    LET roots == { i \in 1..Len(model.parents) :
                     ~model.parents[i].has_parents /\ ~model.parents[i].abstract }
    IN  IF roots = {} THEN model.db_table
        ELSE model.parents[CHOOSE i \in roots : \A j \in roots : i <= j].db_table

\* [x.column] for every unique field, in field order.
RECURSIVE unique_field_columns(_)
unique_field_columns(fields) ==
    IF fields = <<>> THEN <<>>
    ELSE (IF Head(fields).unique THEN << << Head(fields).column >> >> ELSE <<>>)
         \o unique_field_columns(Tail(fields))

\* get_uniques_from_model: the unique_together combinations (columns), then the
\* unique fields.
get_uniques_from_model(model) ==
    [ i \in 1..Len(model.unique_together) |->
        [ j \in 1..Len(model.unique_together[i]) |->
            get_field(model, model.unique_together[i][j]).column ] ]
    \o unique_field_columns(model.fields)

\* No sort at all.
sorted_by_field_unsorted(fav) == fav

\* sorted(fields_and_values, key=lambda x: x[0]): a stable sort on the field name.
RECURSIVE sorted_by_field(_)
sorted_by_field(fav) ==
    IF fav = <<>> THEN <<>>
    ELSE LET rest == sorted_by_field(SubSeq(fav, 1, Len(fav) - 1))
             x    == fav[Len(fav)]
             \* x goes after every element whose field is not greater than its own
             keep == { i \in 1..Len(rest) : ~StrLess(Chars(x[1]), Chars(rest[i][1])) }
             n    == IF keep = {} THEN 0 ELSE CHOOSE i \in keep : \A j \in keep : j <= i
         IN  SubSeq(rest, 1, n) \o << x >> \o SubSeq(rest, n + 1, Len(rest))

\* '|'.join(['%s:%s' % (field, value) for field, value in fields_and_values])
RECURSIVE join_parts(_)
join_parts(fav) ==
    IF fav = <<>> THEN <<>>
    ELSE Chars(fav[1][1]) \o << ":" >> \o FormatValue(fav[1][2])
         \o (IF Len(fav) > 1 THEN << "|" >> ELSE <<>>)
         \o join_parts(Tail(fav))

\* generate_unique_key(model, fields_and_values)
generate_unique_key(model, fields_and_values) ==
    Chars(model.app_label) \o << "." >> \o Chars(get_datastore_kind(model)) \o << "|" >>
    \o join_parts(sorted_by_field(fields_and_values))

\* The key_parts of one combination in cache_entity.
cache_key_parts(model, entity, fields) ==
    [ i \in 1..Len(fields) |->
        << fields[i],
           IF fields[i] = pk_column(model) /\ ~Has(entity, fields[i])
           THEN entity.key
           ELSE entity.props[fields[i]] >> ]

\* unique_keys of cache_entity: one key per unique combination.
cache_entity_keys(model, entity) ==
    LET unique_combinations == get_uniques_from_model(model)
    IN  [ i \in 1..Len(unique_combinations) |->
            generate_unique_key(model, cache_key_parts(model, entity, unique_combinations[i])) ]

\* The key_parts of one combination in uncache_entity.
uncache_key_parts(model, entity, fields) ==
    [ i \in 1..Len(fields) |->
        << fields[i],
           IF fields[i] = pk_column(model) /\ ~Has(entity, fields[i])
           THEN entity.key
           ELSE entity.props[fields[i]] >> ]

\* An uncache that forgets the unique_together combinations.
uncache_entity_keys_fields_only(model, entity) ==
    LET unique_combinations == unique_field_columns(model.fields)
    IN  [ i \in 1..Len(unique_combinations) |->
            generate_unique_key(model, uncache_key_parts(model, entity, unique_combinations[i])) ]

\* The keys uncache_entity deletes, in order.
uncache_entity_keys(model, entity) ==
    LET unique_combinations == get_uniques_from_model(model)
    IN  [ i \in 1..Len(unique_combinations) |->
            generate_unique_key(model, uncache_key_parts(model, entity, unique_combinations[i])) ]

\* The side cache (django.core.cache.cache) while it is available.
CacheGet(c, key) == IF key \in DOMAIN c THEN c[key] ELSE NoEntity

\* A set that keeps an entry already present (cache.add instead of cache.set).
CacheSet_add(c, key, entity) ==
    [ k \in DOMAIN c \cup {key} |-> IF k \in DOMAIN c THEN c[k] ELSE entity ]

CacheSet(c, key, entity) ==
    [ k \in DOMAIN c \cup {key} |-> IF k = key THEN entity ELSE c[k] ]

\* A delete that removes nothing.
CacheDelete_noop(c, key) == c

CacheDelete(c, key) == [ k \in DOMAIN c \ {key} |-> c[k] ]

\* How an unavailable cache answers: it drops the operation silently, or the
\* operation raises.
FailureModes == { "silent", "raise" }

\* The loop of cache.set calls of cache_entity, of which the first `good` take
\* effect.
RECURSIVE set_keys(_, _, _, _)
set_keys(c, keys, entity, good) ==
    IF keys = <<>> \/ good = 0 THEN c
    ELSE set_keys(CacheSet(c, Head(keys), entity), Tail(keys), entity, good - 1)

\* The cache.delete calls of uncache_entity, of which the first `good` take effect.
RECURSIVE delete_keys(_, _, _)
delete_keys(c, keys, good) ==
    IF keys = <<>> \/ good = 0 THEN c
    ELSE delete_keys(CacheDelete(c, Head(keys)), Tail(keys), good - 1)

\* cache_entity(model, entity): the cache afterwards
cache_entity(c, model, entity, good) ==
    set_keys(c, cache_entity_keys(model, entity), entity, good)

\* uncache_entity(model, entity): the cache afterwards
uncache_entity(c, model, entity, good) ==
    delete_keys(c, uncache_entity_keys(model, entity), good)

\* get_entity_from_cache(key) on an available cache
get_entity_from_cache(c, key) == CacheGet(c, key)

----------------------------------------------------------------------------
(* The Cursor (class Cursor) *)

NoCommand ==
    [ kind |-> "none", todo |-> <<>>, i |-> 1, step |-> 1, count |-> 0, ids |-> <<>>,
      effective |-> TRUE ]

\* Cursor.__init__
NewCursor ==
    [ rowcount |-> IntVal(-1), returned_ids |-> <<>>, last_select_command |-> "none",
      queries |-> 0 ]

\* What sql.execute() returned: a value (a count, a result iterator, None) and,
\* for an insert, the list of keys.
Returned(value, ids) == [ value |-> value, ids |-> ids, raised |-> FALSE ]

\* The command classes of commands.py: an Update or a Delete holds an embedded
\* Select and is not itself a SelectCommand.
isinstance_SelectCommand(kind) == kind = "select"

\* Cursor.execute with `or -1` applied to the count of every command.
Cursor_execute_or_minus_one(c, kind, ret) ==
    IF kind \in { "select", "update", "delete" }
    THEN [ c EXCEPT !.rowcount = Or(ret.value, IntVal(-1)) ]
    ELSE c

\* Cursor.execute(sql): the cursor once sql.execute() has returned `ret`.
Cursor_execute(c, kind, ret) ==
    IF isinstance_SelectCommand(kind)
    THEN [ c EXCEPT !.last_select_command = "select",
                    !.rowcount = Or(ret.value, IntVal(-1)) ]
    ELSE IF kind = "flush" THEN c
    ELSE IF kind = "update" THEN [ c EXCEPT !.rowcount = ret.value ]
    ELSE IF kind = "delete" THEN [ c EXCEPT !.rowcount = ret.value ]
    ELSE IF kind = "insert" THEN [ c EXCEPT !.returned_ids = ret.ids ]
    ELSE c   \* anything else raises RuntimeError

\* self.connection.queries.append(sql), before an insert executes
Cursor_before_execute(c, kind) ==
    IF kind = "insert" /\ ~isinstance_SelectCommand(kind)
    THEN [ c EXCEPT !.queries = @ + 1 ]
    ELSE c

\* A SelectCommand: its results (None before execute, an iterator, or the bare
\* count of an aggregate), the entities the iterator yields and how many it has
\* yielded, and the queried columns.
Select(results, rows, queried_fields) ==
    [ results |-> results, rows |-> rows, pos |-> 0, queried_fields |-> queried_fields ]

NoSelect == Select(None, <<>>, <<>>)

\* A fetch call: what was called, with which size, the rows it returned (one row
\* for fetchone and next), whether it returned None, whether it raised, and
\* whether the results were exhausted when it was called.
Fetch(op, size, rows, none, raised, exhausted) ==
    [ op |-> op, size |-> size, rows |-> rows, none |-> none, raised |-> raised,
      exhausted |-> exhausted ]

NoFetch == Fetch("none", 0, <<>>, FALSE, "", FALSE)

\* What the write path or the lookup path made of a primary key: the datastore
\* kind, the identity (id or name; None when the store is to assign it), whether
\* the truncation warning was emitted, and the exception raised ("" for none).
Output(done, kind, id_or_name, warned, raised) ==
    [ done |-> done, kind |-> kind, id_or_name |-> id_or_name, warned |-> warned,
      raised |-> raised ]

NoOutput == Output(FALSE, "", None, FALSE, "")

\* How a Cursor.execute call ended: the command, the rows it worked on, what
\* sql.execute() returned, whether an exception left Cursor.execute, and whether
\* every cache operation took effect.
Ended(kind, items, ret, raised, effective) ==
    [ kind |-> kind, items |-> items, ret |-> ret, raised |-> raised,
      effective |-> effective ]

InitCmdIdle ==
    /\ store = [ id \in {} |-> NoEntity ]
    /\ written = {}
    /\ cmd = NoCommand
    /\ pc = "idle"
    /\ cursor = NewCursor
    /\ lastExec = Ended("none", <<>>, Returned(None, <<>>), FALSE, TRUE)
    /\ executes = 0
    /\ select = NoSelect
    /\ fetched = NoFetch
    /\ delivered = <<>>
    /\ fetches = 0

----------------------------------------------------------------------------
(* Instances converted by django_instance_to_entity *)

\* A field of a model: its name, column, null and primary_key flags and the
\* model (by table) it belongs to.
MField(n, c, null, p, owner) ==
    [ name |-> n, column |-> c, null |-> null, primary_key |-> p, model |-> owner ]

\* A model without parents.
PlainMeta ==
    [ app_label |-> "app", db_table |-> "plain", abstract |-> FALSE, has_parents |-> FALSE,
      parents |-> <<>>,
      fields |-> << MField("id", "id", FALSE, TRUE, "plain"),
                    MField("title", "title", FALSE, FALSE, "plain"),
                    MField("note", "note", TRUE, FALSE, "plain") >> ]

\* Base: the concrete root of a two-level hierarchy.
BaseMeta ==
    [ app_label |-> "app", db_table |-> "base", abstract |-> FALSE, has_parents |-> FALSE,
      parents |-> <<>>,
      fields |-> << MField("id", "id", FALSE, TRUE, "base"),
                    MField("title", "title", FALSE, FALSE, "base"),
                    MField("note", "note", TRUE, FALSE, "base") >> ]

\* Child of Base: its own fields are the parent link (its primary key) and two
\* more; get_parent_list() is << Base >>.
ChildMeta ==
    [ app_label |-> "app", db_table |-> "child", abstract |-> FALSE, has_parents |-> TRUE,
      parents |-> << BaseMeta >>,
      fields |-> << MField("base_ptr", "base_ptr_id", FALSE, TRUE, "child"),
                    MField("nick", "nick", FALSE, FALSE, "child"),
                    MField("bio", "bio", TRUE, FALSE, "child") >> ]

\* What django_instance_to_entity made of an instance: the exception raised (""
\* for none) or the entity's kind, identity and properties, and whether the
\* truncation warning was emitted.
Built(done, raised, kind, id_or_name, warned, props) ==
    [ done |-> done, raised |-> raised, kind |-> kind, id_or_name |-> id_or_name,
      warned |-> warned, props |-> props ]

NotBuilt == Built(FALSE, "", "", None, FALSE, NoProps)

\* No special index is registered for any column.
NoRegistry == [ c \in { "id", "title", "note", "base_ptr_id", "nick", "bio" } |-> <<>> ]

\* No instance is being converted.
IdleEntity ==
    /\ emodel = PlainMeta
    /\ evalues = NoProps
    /\ registry = NoRegistry
    /\ built = NotBuilt

\* A field as the value codec sees it: its class and, for a decimal, its
\* precision.
CodecField(cls, max_digits, decimal_places) ==
    [ class |-> cls, max_digits |-> max_digits, decimal_places |-> decimal_places ]

\* No value yet.
Unset == [t |-> "unset", i |-> 0, s |-> <<>>]

\* No value is being written or read.
IdleCodec ==
    /\ use_tz = FALSE
    /\ cfield = CodecField("CharField", 0, 0)
    /\ cvalue = None
    /\ native = Unset
    /\ readback = Unset
    /\ rawread = Unset

\* A request as IAPBackend.authenticate reads it: the two IAP headers (None
\* when absent), request._through_local_iap_middleware, whether the audience
\* setting exists, and what id_token.verify_token makes of the assertion.
Request(user_id, email, through_local, audience, jwt) ==
    [ user_id |-> user_id, email |-> email, through_local |-> through_local,
      audience |-> audience, jwt |-> jwt ]

\* What verifying the JWT assertion gives: an exception, or the signed subject
\* and email.
Jwt(valid, sub, email) == [ valid |-> valid, sub |-> sub, email |-> email ]

NoRequest == Request(None, None, TRUE, TRUE, Jwt(FALSE, <<>>, <<>>))

\* The ids a header can carry after its namespace.
IapIds == { <<>>, << "1" >>, << "2" >> }

\* No authenticate call has been made and there is no user.
IdleIAP ==
    /\ users = <<>>
    /\ iap_request = NoRequest
    /\ iap_before = <<>>
    /\ iap_result = Unset
    /\ returned_for = [ id \in IapIds |-> 0 ]
    /\ auths = 0

\* A session: the username of the user it was logged in as and the backend that
\* authenticated it ("" for neither).
Session(user, backend) == [ user |-> user, backend |-> backend ]

NoSession == Session("", "")

\* The usernames of the Django users: two Google user ids, and a user of
\* another backend.
Usernames == { "1", "2", "bob" }

\* A Django user, as far as process_request reads and writes it.
DjangoUser(exists, is_superuser, is_staff, email) ==
    [ exists |-> exists, is_superuser |-> is_superuser, is_staff |-> is_staff,
      email |-> email ]

\* The current Google user (users.get_current_user()); no user_id for none.
GoogleUser(user_id, email, is_admin) ==
    [ user_id |-> user_id, email |-> email, is_admin |-> is_admin ]

NoGoogleUser == GoogleUser("", <<>>, FALSE)

\* A process_request call: the session and users it found, the Google user,
\* what authenticate answers, and what the call did: request.user ("unset"
\* when never assigned), the exception it raised, its logins, logouts and
\* saves, and the session and users it left.
MwCall(session, table, google_user, outcome, request_user, raised, events, left) ==
    [ session |-> session, users |-> table, google_user |-> google_user,
      outcome |-> outcome, request_user |-> request_user, raised |-> raised,
      events |-> events, session_left |-> left[1], users_left |-> left[2] ]

NoDjangoUsers == [ u \in Usernames |-> DjangoUser(FALSE, FALSE, FALSE, <<>>) ]

\* No request has come in.
IdleMW ==
    /\ mw_session = NoSession
    /\ mw_users = NoDjangoUsers
    /\ mw_call = MwCall(NoSession, NoDjangoUsers, NoGoogleUser, "None", "unset", "", <<>>,
                        << NoSession, NoDjangoUsers >>)
    /\ requests = 0

IdleMore == IdleEntity /\ IdleCodec /\ IdleIAP /\ IdleMW

----------------------------------------------------------------------------
(* Calls on the cache helpers: specification SpecCache *)

EmailA == << "a", "@", "x" >>
EmailB == << "B", "@", "x" >>
Emails == { EmailA, EmailB }

\* The properties of a user entity; the primary key column is a property only
\* when with_pk.
UserProps(id, email, with_pk) ==
    [ x \in { "email", "org_id", "name" } \cup (IF with_pk THEN { "id" } ELSE {}) |->
        CASE x = "email"  -> StrVal(email)
          [] x = "org_id" -> IntVal(1)
          [] x = "name"   -> StrVal(Chars("name"))
          [] x = "id"     -> IntVal(id) ]

Ids == { 1, 2 }

\* Saved entities of UserModel.
Entities ==
    { Entity(IntVal(id), UserProps(id, email, with_pk)) :
        id \in Ids, email \in Emails, with_pk \in BOOLEAN }

\* Every cache key an entity of UserModel can have.
AllKeys ==
    UNION { { cache_entity_keys(UserModel, e)[i] :
                i \in 1..Len(cache_entity_keys(UserModel, e)) } : e \in Entities }

NoKey == <<>>

Call(op, entity, key, good, total, mode, result) ==
    [ op |-> op, entity |-> entity, key |-> key,
      \* every cache operation of the call took effect
      effective |-> good = total,
      \* the call ended in an exception
      raised |-> good < total /\ mode = "raise",
      result |-> result ]

NoCall == Call("none", NoEntity, NoKey, 0, 0, "up", NoEntity)

IdleCache ==
    /\ cache = [ k \in {} |-> NoEntity ]
    /\ lastCall = NoCall
    /\ prevCall = NoCall
    /\ calls = 0

\* No key is being generated.
IdleKey ==
    /\ kmodel = UserModel
    /\ parts = <<>>
    /\ unique_key = <<>>
    /\ first_key = <<>>

\* No instance is being written or looked up.
IdleMapper ==
    /\ mmodel = UserModel
    /\ pk = None
    /\ entityOut = NoOutput
    /\ lookupOut = NoOutput

\* An empty cache, an empty store and a new cursor.
InitCache == IdleCache /\ InitCmdIdle /\ IdleKey /\ IdleMapper /\ IdleMore

\* The side cache during one call: available, or unavailable in one of the
\* failure modes.
Availability == { "up" } \cup FailureModes

\* The number of cache operations, out of `total`, that take effect.
Good(avail, total) == IF avail = "up" THEN total ELSE 0

\* cache_entity(UserModel, entity)
CallCacheEntity ==
    /\ calls < MaxCalls
    /\ UNCHANGED <<cmdVars, cursor, fetchVars, keyVars, mapperVars, moreVars>>
    /\ \E entity \in Entities, avail \in Availability :
       LET total == Len(cache_entity_keys(UserModel, entity))
       IN  /\ cache' = cache_entity(cache, UserModel, entity, Good(avail, total))
           /\ lastCall' = Call("cache_entity", entity, NoKey, Good(avail, total),
                               total, avail, NoEntity)
    /\ prevCall' = lastCall
    /\ calls' = calls + 1

\* uncache_entity(UserModel, entity)
CallUncacheEntity ==
    /\ calls < MaxCalls
    /\ UNCHANGED <<cmdVars, cursor, fetchVars, keyVars, mapperVars, moreVars>>
    /\ \E entity \in Entities, avail \in Availability :
       LET total == Len(uncache_entity_keys(UserModel, entity))
       IN  /\ cache' = uncache_entity(cache, UserModel, entity, Good(avail, total))
           /\ lastCall' = Call("uncache_entity", entity, NoKey, Good(avail, total),
                               total, avail, NoEntity)
    /\ prevCall' = lastCall
    /\ calls' = calls + 1

\* get_entity_from_cache(key); an unavailable cache answers None or raises.
CallGetEntityFromCache ==
    /\ calls < MaxCalls
    /\ \E key \in AllKeys, avail \in Availability :
          lastCall' = Call("get_entity_from_cache", NoEntity, key, Good(avail, 1), 1, avail,
                           IF avail = "up" THEN get_entity_from_cache(cache, key)
                           ELSE NoEntity)
    /\ prevCall' = lastCall
    /\ calls' = calls + 1
    /\ UNCHANGED <<cache, cmdVars, cursor, fetchVars, keyVars, mapperVars, moreVars>>

\* An entry reaches its timeout (DEFAULT_CACHE_TIMEOUT) and is dropped.
Expire ==
    /\ calls < MaxCalls
    /\ UNCHANGED <<cmdVars, cursor, fetchVars, keyVars, mapperVars, moreVars>>
    /\ \E key \in DOMAIN cache :
          /\ cache' = CacheDelete(cache, key)
          /\ lastCall' = Call("expire", NoEntity, key, 1, 1, "up", NoEntity)
    /\ prevCall' = lastCall
    /\ calls' = calls + 1

NextCache ==
    \/ CallCacheEntity
    \/ CallUncacheEntity
    \/ CallGetEntityFromCache
    \/ Expire

SpecCache == InitCache /\ [][NextCache]_vars

----------------------------------------------------------------------------
(* Commands run through Cursor.execute: specification SpecCmd *)

\* The order of the two steps a command takes for each record: the store write
\* (put or delete), then the cache update.
command_steps_cache_first(kind) == << "cache", "write" >>

command_steps(kind) == << "write", "cache" >>

\* The rows of the store in ascending id order.
RECURSIVE StoreRows(_, _)
StoreRows(st, ids) ==
    IF ids = {} THEN <<>>
    ELSE LET id == CHOOSE x \in ids : \A y \in ids : x <= y
         IN  << st[id] >> \o StoreRows(st, ids \ {id})

\* The rows the embedded Select of an Update or Delete matches: the row with a
\* given id, or (filter 0) every row.
Matched(st, filter) ==
    IF filter = 0 THEN StoreRows(st, DOMAIN st)
    ELSE IF filter \in DOMAIN st THEN << st[filter] >> ELSE <<>>

FreeIds == (1..MaxRows) \ DOMAIN store

\* Cursor.execute(InsertCommand) is entered: one entity is built for the row;
\* id 0 stands for no primary key (the store assigns one).
ExecuteInsert ==
    /\ pc = "idle" /\ executes < MaxExecutes
    /\ \E id \in 0..MaxRows, email \in Emails :
          /\ id = 0 => FreeIds # {}
          /\ cmd' = [ NoCommand EXCEPT
                        !.kind = "insert",
                        !.todo = << [ old |-> NoEntity,
                                      new |-> Entity(IF id = 0 THEN None ELSE IntVal(id),
                                                     UserProps(id, email, FALSE)) ] >> ]
    /\ cursor' = Cursor_before_execute(cursor, "insert")
    /\ pc' = "run"
    /\ executes' = executes + 1
    /\ UNCHANGED <<cache, cacheVars, store, written, lastExec, fetchVars, keyVars, mapperVars, moreVars>>

\* Cursor.execute(UpdateCommand) is entered: a full replacement is built for the
\* row the embedded Select matches.
ExecuteUpdate ==
    /\ pc = "idle" /\ executes < MaxExecutes
    /\ \E id \in 1..MaxRows, email \in Emails :
          LET rows == Matched(store, id)
          IN  cmd' = [ NoCommand EXCEPT
                        !.kind = "update",
                        !.todo = [ j \in 1..Len(rows) |->
                                     [ old |-> rows[j],
                                       new |-> [ rows[j] EXCEPT !.props.email = StrVal(email) ] ] ] ]
    /\ cursor' = Cursor_before_execute(cursor, "update")
    /\ pc' = "run"
    /\ executes' = executes + 1
    /\ UNCHANGED <<cache, cacheVars, store, written, lastExec, fetchVars, keyVars, mapperVars, moreVars>>

\* Cursor.execute(DeleteCommand) is entered.
ExecuteDelete ==
    /\ pc = "idle" /\ executes < MaxExecutes
    /\ \E filter \in 0..MaxRows :
          LET rows == Matched(store, filter)
          IN  cmd' = [ NoCommand EXCEPT
                        !.kind = "delete",
                        !.todo = [ j \in 1..Len(rows) |-> [ old |-> rows[j], new |-> NoEntity ] ] ]
    /\ cursor' = Cursor_before_execute(cursor, "delete")
    /\ pc' = "run"
    /\ executes' = executes + 1
    /\ UNCHANGED <<cache, cacheVars, store, written, lastExec, fetchVars, keyVars, mapperVars, moreVars>>

\* Cursor.execute(FlushCommand): every record of the kind is deleted.
ExecuteFlush ==
    /\ pc = "idle" /\ executes < MaxExecutes
    /\ store' = [ id \in {} |-> NoEntity ]
    /\ cursor' = Cursor_execute(Cursor_before_execute(cursor, "flush"), "flush",
                                Returned(None, <<>>))
    /\ lastExec' = Ended("flush", <<>>, Returned(None, <<>>), FALSE, TRUE)
    /\ executes' = executes + 1
    /\ UNCHANGED <<cache, cacheVars, written, cmd, pc, fetchVars, keyVars, mapperVars, moreVars>>

\* Cursor.execute of anything that is not a command raises RuntimeError.
ExecuteRawSQL ==
    /\ pc = "idle" /\ executes < MaxExecutes
    /\ cursor' = Cursor_execute(Cursor_before_execute(cursor, "sql"), "sql",
                                Returned(None, <<>>))
    /\ lastExec' = Ended("sql", <<>>, Returned(None, <<>>), TRUE, TRUE)
    /\ executes' = executes + 1
    /\ UNCHANGED <<cache, cacheVars, store, written, cmd, pc, fetchVars, keyVars, mapperVars, moreVars>>

Running == pc = "run" /\ cmd.i <= Len(cmd.todo)

\* The command after a step on the current record.
Advance(c) ==
    IF c.step < Len(command_steps(c.kind))
    THEN [ c EXCEPT !.step = @ + 1 ]
    ELSE [ c EXCEPT !.step = 1, !.i = @ + 1 ]

\* An exception leaves sql.execute() and Cursor.execute: the cursor keeps its
\* fields.
Abort ==
    /\ lastExec' = Ended(cmd.kind, cmd.todo, Returned(None, <<>>), TRUE, cmd.effective)
    /\ cmd' = NoCommand
    /\ pc' = "idle"

\* The store write of the current record succeeds: a put (which assigns the
\* identity of an entity that has none) or a delete.
StoreWrite ==
    /\ Running
    /\ command_steps(cmd.kind)[cmd.step] = "write"
    /\ LET item == cmd.todo[cmd.i]
       IN  IF cmd.kind = "delete"
           THEN /\ store' = [ id \in DOMAIN store \ { item.old.key.i } |-> store[id] ]
                /\ written' = written
                /\ cmd' = Advance([ cmd EXCEPT !.count = @ + 1 ])
           ELSE LET id == IF item.new.key = None
                          THEN CHOOSE x \in FreeIds : \A y \in FreeIds : x <= y
                          ELSE item.new.key.i
                    e  == [ item.new EXCEPT !.key = IntVal(id) ]
                IN  /\ store' = [ x \in DOMAIN store \cup {id} |->
                                    IF x = id THEN e ELSE store[x] ]
                    /\ written' = written \cup {e}
                    /\ cmd' = Advance([ cmd EXCEPT !.count = @ + 1,
                                                   !.ids = Append(@, IntVal(id)),
                                                   !.todo[cmd.i].new = e ])
    /\ UNCHANGED <<cache, cacheVars, cursor, pc, lastExec, executes, fetchVars, keyVars, mapperVars, moreVars>>

\* The store write fails (timeout, quota): the failure propagates unchanged.
StoreFail ==
    /\ Running
    /\ command_steps(cmd.kind)[cmd.step] = "write"
    /\ Abort
    /\ UNCHANGED <<cache, cacheVars, cursor, store, written, executes, fetchVars, keyVars, mapperVars, moreVars>>

\* The cache update of the current record: an insert caches the entity, an
\* update uncaches the old snapshot and caches the new one, a delete uncaches.
CacheUpdate ==
    /\ Running
    /\ command_steps(cmd.kind)[cmd.step] = "cache"
    /\ \E avail \in Availability :
          LET item == cmd.todo[cmd.i]
              dels == IF cmd.kind = "insert" THEN 0
                      ELSE Good(avail, Len(uncache_entity_keys(UserModel, item.old)))
              sets == IF cmd.kind = "delete" THEN 0
                      ELSE Good(avail, Len(cache_entity_keys(UserModel, item.new)))
              c1   == IF cmd.kind = "insert" THEN cache
                      ELSE uncache_entity(cache, UserModel, item.old, dels)
              c2   == IF cmd.kind = "delete" THEN c1
                      ELSE cache_entity(c1, UserModel, item.new, sets)
          IN  /\ cache' = c2
              /\ IF avail = "raise"
                 THEN Abort
                 ELSE /\ cmd' = Advance([ cmd EXCEPT !.effective = @ /\ avail = "up" ])
                      /\ UNCHANGED <<pc, lastExec>>
    /\ UNCHANGED <<cacheVars, cursor, store, written, executes, fetchVars, keyVars, mapperVars, moreVars>>

\* sql.execute() returns and Cursor.execute stores what it returned.
Finish ==
    /\ pc = "run" /\ cmd.i > Len(cmd.todo)
    /\ LET ret == IF cmd.kind = "insert" THEN Returned(None, cmd.ids)
                  ELSE Returned(IntVal(cmd.count), <<>>)
       IN  /\ cursor' = Cursor_execute(cursor, cmd.kind, ret)
           /\ lastExec' = Ended(cmd.kind, cmd.todo, ret, FALSE, cmd.effective)
    /\ cmd' = NoCommand
    /\ pc' = "idle"
    /\ UNCHANGED <<cache, cacheVars, store, written, executes, fetchVars, keyVars, mapperVars, moreVars>>

NextCmd ==
    \/ ExecuteInsert
    \/ ExecuteUpdate
    \/ ExecuteDelete
    \/ ExecuteFlush
    \/ ExecuteRawSQL
    \/ StoreWrite
    \/ StoreFail
    \/ CacheUpdate
    \/ Finish

SpecCmd == InitCache /\ [][NextCmd]_vars

----------------------------------------------------------------------------
(* Fetching rows from the cursor: specification SpecCursor *)

\* DatabaseCreation.data_types, for the field classes of the models here
data_types(cls) ==
    CASE cls = "AutoField"            -> "key"
      [] cls = "RelatedAutoField"     -> "key"
      [] cls = "ForeignKey"           -> "key"
      [] cls = "OneToOneField"        -> "key"
      [] cls = "BigIntegerField"      -> "long"
      [] cls = "BooleanField"         -> "bool"
      [] cls = "CharField"            -> "string"
      [] cls = "DateField"            -> "date"
      [] cls = "DateTimeField"        -> "datetime"
      [] cls = "DecimalField"         -> "decimal"
      [] cls = "EmailField"           -> "string"
      [] cls = "FloatField"           -> "float"
      [] cls = "IntegerField"         -> "integer"
      [] cls = "PositiveIntegerField" -> "integer"
      [] cls = "SlugField"            -> "string"
      [] cls = "TimeField"            -> "time"
      [] cls = "ListField"            -> "list"
      [] cls = "RawField"             -> "raw"
      [] cls = "BlobField"            -> "bytes"
      [] cls = "TextField"            -> "text"
      [] cls = "SetField"             -> "list"
      [] cls = "DictField"            -> "bytes"

\* DatabaseCreation.db_type
db_type(field) == data_types(field.class)

\* get_field_from_column (commands.py): the field of the model stored in a column
get_field_from_column(model, col) ==
    model.fields[CHOOSE i \in 1..Len(model.fields) : model.fields[i].column = col]

\* ---- The value codec ----
\* Values besides None, ints and (unicode) texts: a byte string (Python 2 str),
\* datastore Text and Blob, a decimal (in hundredths), and dates and times.
\* Time is counted in units of which a day has UnitsPerDay; the raw integer form
\* of an instant counts the same units since the epoch. A tz of <<>> is a naive
\* value, << "utc" >> and << "+1" >> are aware ones.
BytesVal(x) == [t |-> "bytestr", i |-> 0, s |-> x]
TextVal(x) == [t |-> "Text", i |-> 0, s |-> x]
BlobVal(x) == [t |-> "Blob", i |-> 0, s |-> x]
DecimalVal(n) == [t |-> "decimal", i |-> n, s |-> <<>>]
DateVal(d) == [t |-> "date", i |-> d, s |-> <<>>]
TimeVal(u, tz) == [t |-> "time", i |-> u, s |-> tz]
DateTimeVal(u, tz) == [t |-> "datetime", i |-> u, s |-> tz]

\* An exception leaving a conversion.
Raise(name) == [t |-> "raise", i |-> 0, s |-> << name >>]

UnitsPerDay == 3

UTC == << "utc" >>

\* The utcoffset of a tzinfo, in units.
UtcOffset(tz) == IF tz = << "+1" >> THEN 1 ELSE 0

\* timezone.is_naive(value) / timezone.is_aware(value)
is_naive(value) == value.s = <<>>
is_aware(value) == value.s # <<>>

\* make_timezone_naive (djangae.db.utils): an aware value is converted to UTC
\* and loses its tzinfo when the deployment is timezone-aware and is refused
\* otherwise; a naive value is returned as it is.
make_timezone_naive(value) ==
    IF value = None THEN None
    ELSE IF is_aware(value)
    THEN IF use_tz THEN [ value EXCEPT !.i = @ - UtcOffset(value.s), !.s = <<>> ]
         ELSE Raise("ValueError")
    ELSE value

\* The digits of n, padded with zeroes on the left to a width.
RECURSIVE ZeroPad(_, _)
ZeroPad(text, width) == IF Len(text) >= width THEN text ELSE ZeroPad(<< "0" >> \o text, width)

\* 10 ^ n
RECURSIVE Pow10(_)
Pow10(n) == IF n = 0 THEN 1 ELSE 10 * Pow10(n - 1)

\* decimal_to_string (djangae.db.utils): the sign, the integer part padded to
\* max_digits - decimal_places digits, and the decimal_places digits of the
\* fraction. The value is a decimal of two places, in hundredths.
decimal_to_string(value, max_digits, decimal_places) ==
    LET n      == IF value.i < 0 THEN 0 - value.i ELSE value.i
        \* quantized to decimal_places
        q      == (n * Pow10(decimal_places)) \div 100
        whole  == q \div Pow10(decimal_places)
        frac   == q % Pow10(decimal_places)
    IN  (IF value.i < 0 THEN << "-" >> ELSE <<>>)
        \o ZeroPad(IntToStr(whole), max_digits - decimal_places)
        \o (IF decimal_places > 0
            THEN << "." >> \o ZeroPad(IntToStr(frac), decimal_places) ELSE <<>>)

\* The number a text of digits denotes.
RECURSIVE DigitsToInt(_)
DigitsToInt(text) ==
    IF text = <<>> THEN 0
    ELSE 10 * DigitsToInt(SubSeq(text, 1, Len(text) - 1))
         + (CHOOSE d \in 0..9 : Digits[d + 1] = text[Len(text)])

\* decimal.Decimal(text), in hundredths (the texts read here have at most two
\* decimal places).
Decimal(value) ==
    IF value.t = "decimal" THEN value
    ELSE IF value.t = "int" THEN DecimalVal(value.i * 100)
    ELSE LET text   == value.s
             neg    == text # <<>> /\ Head(text) = "-"
             body   == IF neg THEN Tail(text) ELSE text
             dots   == { i \in 1..Len(body) : body[i] = "." }
             dot    == IF dots = {} THEN Len(body) + 1 ELSE CHOOSE i \in dots : TRUE
             whole  == SubSeq(body, 1, dot - 1)
             frac   == SubSeq(body, dot + 1, Len(body))
             n      == DigitsToInt(whole) * 100
                       + DigitsToInt(SubSeq(frac \o << "0", "0" >>, 1, 2))
         IN  DecimalVal(IF neg THEN 0 - n ELSE n)

\* datetime.datetime.fromtimestamp(float(value) / 1000000.0), the process
\* running in UTC (as on App Engine)
fromtimestamp(n) == DateTimeVal(n, <<>>)

\* DatabaseOperations.value_to_db_datetime
value_to_db_datetime(value) == make_timezone_naive(value)

\* DatabaseOperations.value_to_db_date
value_to_db_date(value) ==
    IF value # None THEN DateTimeVal(value.i * UnitsPerDay, <<>>) ELSE value

\* DatabaseOperations.value_to_db_time
value_to_db_time(value) ==
    IF value # None
    THEN LET v == make_timezone_naive(value)
         IN  IF v.t = "raise" THEN v
             ELSE DateTimeVal((fromtimestamp(0).i \div UnitsPerDay) * UnitsPerDay + v.i, <<>>)
    ELSE value

\* DatabaseOperations.value_to_db_decimal
value_to_db_decimal(value, max_digits, decimal_places) ==
    IF value.t = "decimal"
    THEN StrVal(decimal_to_string(value, max_digits, decimal_places))
    ELSE value

\* A read that attaches UTC whatever settings.USE_TZ is.
value_from_db_datetime_always_utc(value) ==
    LET v == IF value.t = "int" THEN fromtimestamp(value.i) ELSE value
    IN  IF v # None /\ is_naive(v) THEN [ v EXCEPT !.s = UTC ] ELSE v

\* DatabaseOperations.value_from_db_datetime
value_from_db_datetime(value) ==
    LET v == IF value.t = "int" THEN fromtimestamp(value.i) ELSE value
    IN  IF v # None /\ use_tz /\ is_naive(v) THEN [ v EXCEPT !.s = UTC ] ELSE v

\* DatabaseOperations.value_from_db_date
value_from_db_date(value) ==
    LET v == IF value.t = "int" THEN fromtimestamp(value.i) ELSE value
    IN  \* value.date()
        IF v.t = "datetime" THEN DateVal(v.i \div UnitsPerDay)
        ELSE Raise("AttributeError")

\* DatabaseOperations.value_from_db_time
value_from_db_time(value) ==
    LET v1 == IF value.t = "int"
              THEN \* fromtimestamp(...).time()
                   TimeVal(fromtimestamp(value.i).i % UnitsPerDay, <<>>)
              ELSE value
        v2 == IF v1 # None /\ use_tz /\ is_naive(v1) THEN [ v1 EXCEPT !.s = UTC ] ELSE v1
    IN  \* value.time(): a datetime has it, a time and None have not
        IF v2.t = "datetime" THEN TimeVal(v2.i % UnitsPerDay, <<>>)
        ELSE Raise("AttributeError")

\* DatabaseOperations.value_from_db_decimal
value_from_db_decimal(value) == IF Truthy(value) THEN Decimal(value) ELSE value

\* BaseDatabaseOperations.convert_values (django): float() for a FloatField,
\* int() for an integer field or an AutoField, the value otherwise.
base_convert_values(value, field) ==
    IF value = None THEN value
    ELSE IF field.class \in { "IntegerField", "BigIntegerField", "PositiveIntegerField",
                              "AutoField" }
    THEN (IF value.t = "int" THEN value ELSE Raise("ValueError"))
    ELSE value

\* DatabaseOperations.convert_values
convert_values(value0, field) ==
    LET value == base_convert_values(value0, field)
    IN  IF value.t = "raise" THEN value
        ELSE IF db_type(field) = "string" /\ value.t = "bytestr" THEN StrVal(value.s)
        ELSE IF db_type(field) = "datetime" THEN value_from_db_datetime(value)
        ELSE IF db_type(field) = "date" THEN value_from_db_date(value)
        ELSE IF db_type(field) = "time" THEN value_from_db_time(value)
        ELSE IF db_type(field) = "decimal" THEN value_from_db_decimal(value)
        ELSE value

\* DatabaseOperations.value_for_db
value_for_db(value, field) ==
    IF value = None THEN None
    ELSE IF db_type(field) \in { "string", "text" }
    THEN LET decoded == IF value.t = "bytestr" THEN StrVal(value.s) ELSE value
         IN  IF db_type(field) = "text" THEN TextVal(decoded.s) ELSE decoded
    ELSE IF db_type(field) = "bytes" THEN BlobVal(value.s)
    ELSE IF db_type(field) = "date" THEN value_to_db_date(value)
    ELSE IF db_type(field) = "datetime" THEN value_to_db_datetime(value)
    ELSE IF db_type(field) = "time" THEN value_to_db_time(value)
    ELSE IF db_type(field) = "decimal"
    THEN value_to_db_decimal(value, field.max_digits, field.decimal_places)
    ELSE value

\* entity.get(col)
EntityGet(entity, col) == IF Has(entity, col) THEN entity.props[col] ELSE None

\* The row fetchone builds from an entity, column by column.
RECURSIVE build_row(_, _)
build_row(entity, cols) ==
    IF cols = <<>> THEN <<>>
    ELSE << IF Head(cols) = "__key__" THEN entity.key
            ELSE convert_values(EntityGet(entity, Head(cols)),
                                get_field_from_column(UserModel, Head(cols))) >>
         \o build_row(entity, Tail(cols))

\* The keys fetchone appends to returned_ids for one entity.
RECURSIVE keys_seen(_, _)
keys_seen(entity, cols) ==
    IF cols = <<>> THEN <<>>
    ELSE (IF Head(cols) = "__key__" THEN << entity.key >> ELSE <<>>)
         \o keys_seen(entity, Tail(cols))

\* What a fetch call leaves: the cursor, the select, the rows returned, whether
\* None was returned, and the exception raised ("" for none).
Outcome(c, sel, rows, none, raised) ==
    [ cursor |-> c, select |-> sel, rows |-> rows, none |-> none, raised |-> raised ]

\* SelectCommand.next_result (commands.py) has an entity to give.
HasNextResult(sel) == sel.pos < Len(sel.rows)

\* Cursor.fetchone
Cursor_fetchone(c, sel) ==
    IF c.last_select_command = "none"
    THEN Outcome(c, sel, <<>>, FALSE, "AttributeError")
    ELSE IF sel.results.t = "int"
    THEN \* Handle aggregate (e.g. count)
         Outcome(c, sel, << << sel.results >> >>, FALSE, "")
    ELSE IF ~HasNextResult(sel)
    THEN \* StopIteration: entity = None
         Outcome(c, sel, <<>>, TRUE, "")
    ELSE LET entity == sel.rows[sel.pos + 1]
         IN  Outcome([ c EXCEPT !.returned_ids = @ \o keys_seen(entity, sel.queried_fields) ],
                     [ sel EXCEPT !.pos = @ + 1 ],
                     << build_row(entity, sel.queried_fields) >>, FALSE, "")

\* Cursor.next
Cursor_next(c, sel) ==
    LET r == Cursor_fetchone(c, sel)
    IN  IF r.raised = "" /\ r.none THEN [ r EXCEPT !.raised = "StopIteration", !.none = FALSE ]
        ELSE r

\* The loop of Cursor.fetchmany: i rows fetched so far into result.
RECURSIVE fetchmany_loop(_, _, _, _, _)
fetchmany_loop(c, sel, size, i, result) ==
    IF ~(i < size) THEN Outcome(c, sel, result, FALSE, "")
    ELSE LET r == Cursor_fetchone(c, sel)
         IN  IF r.none THEN Outcome(r.cursor, r.select, result, FALSE, "")
             ELSE fetchmany_loop(r.cursor, r.select, size, i + 1, result \o r.rows)

\* A fetchmany without the test for empty results.
Cursor_fetchmany_one_short(c, sel, size) ==
    IF c.last_select_command = "none"
    THEN Outcome(c, sel, <<>>, FALSE, "AttributeError")
    ELSE fetchmany_loop(c, sel, size - 1, 0, <<>>)

\* Cursor.fetchmany
Cursor_fetchmany(c, sel, size) ==
    IF c.last_select_command = "none"
    THEN Outcome(c, sel, <<>>, FALSE, "AttributeError")
    ELSE IF ~Truthy(sel.results) THEN Outcome(c, sel, <<>>, FALSE, "")
    ELSE fetchmany_loop(c, sel, size, 0, <<>>)

\* The entity a query returns for an id.
RowEntity(id) ==
    Entity(IntVal(id), UserProps(id, IF id % 2 = 1 THEN EmailA ELSE EmailB, FALSE))

\* The result sequences of a query: any distinct rows in any order.
ResultIds ==
    { q \in UNION { [1..n -> 1..MaxRows] : n \in 0..MaxRows } :
        \A i, j \in 1..Len(q) : i # j => q[i] # q[j] }

QueriedFields == { << "__key__", "email" >>, << "email" >> }

\* Cursor.execute(SelectCommand) for a query that returns entities.
ExecuteSelect ==
    /\ executes < MaxSelects
    /\ \E ids \in ResultIds, cols \in QueriedFields :
          select' = Select(IterVal, [ i \in 1..Len(ids) |-> RowEntity(ids[i]) ], cols)
    /\ cursor' = Cursor_execute(Cursor_before_execute(cursor, "select"), "select",
                                Returned(IterVal, <<>>))
    /\ fetched' = NoFetch
    /\ delivered' = <<>>
    /\ executes' = executes + 1
    /\ UNCHANGED <<cache, cacheVars, store, written, cmd, pc, lastExec, fetches, keyVars, mapperVars, moreVars>>

\* Cursor.execute(SelectCommand) for an aggregate: the results are a bare count.
ExecuteAggregate ==
    /\ executes < MaxSelects
    /\ \E count \in 0..MaxRows :
          /\ select' = Select(IntVal(count), <<>>, <<>>)
          /\ cursor' = Cursor_execute(Cursor_before_execute(cursor, "select"), "select",
                                      Returned(IntVal(count), <<>>))
    /\ fetched' = NoFetch
    /\ delivered' = <<>>
    /\ executes' = executes + 1
    /\ UNCHANGED <<cache, cacheVars, store, written, cmd, pc, lastExec, fetches, keyVars, mapperVars, moreVars>>

Exhausted == select.results.t = "iter" /\ ~HasNextResult(select)

\* A fetch call returned r.
AfterFetch(op, size, r) ==
    /\ cursor' = r.cursor
    /\ select' = r.select
    /\ fetched' = Fetch(op, size, r.rows, r.none, r.raised, Exhausted)
    /\ delivered' = delivered \o r.rows
    /\ fetches' = fetches + 1
    /\ UNCHANGED <<cache, cacheVars, cmdVars, keyVars, mapperVars, moreVars>>

CallFetchone ==
    /\ fetches < MaxFetches
    /\ AfterFetch("fetchone", 1, Cursor_fetchone(cursor, select))

CallNext ==
    /\ fetches < MaxFetches
    /\ AfterFetch("next", 1, Cursor_next(cursor, select))

CallFetchmany ==
    /\ fetches < MaxFetches
    /\ \E size \in 0..MaxSize : AfterFetch("fetchmany", size, Cursor_fetchmany(cursor, select, size))

NextCursor ==
    \/ ExecuteSelect
    \/ ExecuteAggregate
    \/ CallFetchone
    \/ CallNext
    \/ CallFetchmany

SpecCursor == InitCache /\ [][NextCursor]_vars

----------------------------------------------------------------------------
(* generate_unique_key on reordered pairs: specification SpecKey *)

Columns == { "id", "email", "org_id", "name" }

PartValues == { IntVal(12), StrVal(EmailA), None }

\* The fields_and_values lists: (column, value) pairs over distinct columns.
PartLists ==
    { q \in UNION { [1..n -> Columns \X PartValues] : n \in 0..MaxParts } :
        \A i, j \in 1..Len(q) : i # j => q[i][1] # q[j][1] }

InitKey ==
    /\ kmodel \in { UserModel, ChildModel }
    /\ parts \in PartLists
    /\ unique_key = <<>>
    /\ first_key = <<>>
    /\ IdleCache /\ InitCmdIdle /\ IdleMapper /\ IdleMore

\* generate_unique_key(kmodel, parts), for the first ordering of the pairs
GenerateKey ==
    /\ unique_key = <<>>
    /\ unique_key' = generate_unique_key(kmodel, parts)
    /\ first_key' = generate_unique_key(kmodel, parts)
    /\ UNCHANGED <<kmodel, parts, cache, cacheVars, cmdVars, cursor, fetchVars, mapperVars, moreVars>>

\* generate_unique_key(kmodel, parts) again, with two neighbours of the list
\* exchanged
GenerateKeyReordered ==
    /\ unique_key # <<>>
    /\ \E i \in 1..(Len(parts) - 1) :
          /\ parts' = [ parts EXCEPT ![i] = parts[i + 1], ![i + 1] = parts[i] ]
          /\ unique_key' = generate_unique_key(kmodel, parts')
    /\ UNCHANGED <<kmodel, first_key, cache, cacheVars, cmdVars, cursor, fetchVars, mapperVars, moreVars>>

NextKey == GenerateKey \/ GenerateKeyReordered

SpecKey == InitKey /\ [][NextKey]_vars

----------------------------------------------------------------------------
(* Primary keys on the write path and the lookup path: specification SpecMapper *)

\* The length a key name is cut to.
KeyLimit == 500

\* text[:n] and text[n:]
SliceTo(text, n) == SubSeq(text, 1, IF n < Len(text) THEN n ELSE Len(text))
SliceFrom(text, n) == SubSeq(text, n + 1, Len(text))

\* The storage identity django_instance_to_entity gives an entity, from the
\* primary key value of the instance.
entity_kwargs(primary_key) ==
    IF Truthy(primary_key)
    THEN IF primary_key.t = "int"
         THEN [ id_or_name |-> primary_key, warned |-> FALSE, raised |-> "" ]
         ELSE IF primary_key.t = "str"
         THEN IF Len(primary_key.s) >= KeyLimit
              THEN [ id_or_name |-> StrVal(SliceTo(primary_key.s, KeyLimit)),
                     warned |-> TRUE, raised |-> "" ]
              ELSE [ id_or_name |-> primary_key, warned |-> FALSE, raised |-> "" ]
         ELSE [ id_or_name |-> None, warned |-> FALSE, raised |-> "ValueError" ]
    ELSE [ id_or_name |-> None, warned |-> FALSE, raised |-> "" ]

\* django_instance_to_entity: the kind and the identity of the entity built for
\* an instance whose primary key field resolves to primary_key.
django_instance_to_entity(model, primary_key) ==
    LET db_table == get_datastore_kind(model)
        kwargs   == entity_kwargs(primary_key)
    IN  Output(TRUE, db_table, kwargs.id_or_name, kwargs.warned, kwargs.raised)

\* DatabaseOperations.prep_lookup_key: Key.from_path(kind, value)
prep_lookup_key(model, value) ==
    IF value.t = "str"
    THEN LET cut  == SliceTo(value.s, KeyLimit)
             left == SliceFrom(cut, KeyLimit)
         IN  Output(TRUE, get_datastore_kind(model), StrVal(cut), left # <<>>, "")
    ELSE Output(TRUE, get_datastore_kind(model), value, FALSE, "")

\* n characters, all "x", or all "x" but a last "y".
XText(n) == [ i \in 1..n |-> "x" ]
YText(n) == [ i \in 1..n |-> IF i = n THEN "y" ELSE "x" ]

\* The primary key values an instance can carry.
PrimaryKeys ==
    { None, IntVal(0), IntVal(1), IntVal(2), FloatVal(1) }
    \cup { StrVal(XText(n)) : n \in 0..MaxKeyLen }
    \cup { StrVal(YText(n)) : n \in 1..MaxKeyLen }

InitMapper ==
    /\ mmodel \in { UserModel, ChildModel }
    /\ pk \in PrimaryKeys
    /\ entityOut = NoOutput
    /\ lookupOut = NoOutput
    /\ IdleCache /\ InitCmdIdle /\ IdleKey /\ IdleMore

\* The instance is converted for an insert.
WriteInstance ==
    /\ ~entityOut.done
    /\ entityOut' = django_instance_to_entity(mmodel, pk)
    /\ UNCHANGED <<mmodel, pk, lookupOut, cache, cacheVars, cmdVars, cursor, fetchVars, keyVars, moreVars>>

\* The same primary key is prepared for a point lookup.
LookupKey ==
    /\ ~lookupOut.done
    /\ lookupOut' = prep_lookup_key(mmodel, pk)
    /\ UNCHANGED <<mmodel, pk, entityOut, cache, cacheVars, cmdVars, cursor, fetchVars, keyVars, moreVars>>

NextMapper == WriteInstance \/ LookupKey

SpecMapper == InitMapper /\ [][NextMapper]_vars

----------------------------------------------------------------------------
(* django_instance_to_entity on whole instances: specification SpecEntity *)

\* f[k] = v
Put(f, k, v) == [ x \in DOMAIN f \cup {k} |-> IF x = k THEN v ELSE f[x] ]

\* A list of names as a property value.
ListVal(names) == [t |-> "list", i |-> 0, s |-> names]

LowerChar(c) == CASE c = "B" -> "b" [] c = "N" -> "n" [] OTHER -> c

\* text.lower()
Lower(text) == [ i \in 1..Len(text) |-> LowerChar(text[i]) ]

\* special_indexes_for_column (djangae.indexing): the indexes registered for a
\* column.
special_indexes_for_column(reg, column) == reg[column]

\* REQUIRES_SPECIAL_INDEXES[index].indexed_column_name(column)
indexed_column_name(index, column) == "_idx_" \o index \o "_" \o column

\* REQUIRES_SPECIAL_INDEXES[index].prep_value_for_database(value): the
\* case-insensitive transform lower-cases the text of the value, the containment
\* transform lists its characters.
prep_value_for_database(index, value) ==
    IF value.t \notin { "int", "str" } THEN value
    ELSE IF index = "iexact" THEN StrVal(Lower(FormatValue(value)))
    ELSE ListVal(FormatValue(value))

\* The test of value_from_instance without the exemption of primary keys.
value_is_rejected_pk_too(field, value) == ~field.null /\ value = None

\* value_from_instance: the value is refused (IntegrityError).
value_is_rejected(field, value) ==
    (~field.null /\ ~field.primary_key) /\ value = None

\* if [x for x in model._meta.get_parent_list() if not x._meta.abstract]
uses_inheritance(model) == \E i \in 1..Len(model.parents) : ~model.parents[i].abstract

\* inheritance_root once the parents have been walked: the last parent without
\* parents, or the model.
inheritance_root(model) ==
    LET tops == { i \in 1..Len(model.parents) : ~model.parents[i].has_parents }
    IN  IF uses_inheritance(model) /\ tops # {}
        THEN model.parents[CHOOSE i \in tops : \A j \in tops : j <= i]
        ELSE model

\* The parents' tables first, the model's own table last.
class_list_parents_first(model) ==
    [ i \in 1..Len(model.parents) |-> model.parents[i].db_table ] \o << model.db_table >>

\* classes = [ model._meta.db_table ], then every parent's db_table appended
class_list(model) ==
    << model.db_table >> \o [ i \in 1..Len(model.parents) |-> model.parents[i].db_table ]

RECURSIVE parent_fields(_)
parent_fields(parents) ==
    IF parents = <<>> THEN <<>> ELSE Head(parents).fields \o parent_fields(Tail(parents))

\* The fields list once the parents' fields have been appended.
extended_fields(model, fields) ==
    IF uses_inheritance(model) THEN fields \o parent_fields(model.parents) ELSE fields

\* An index loop that stops after the first index of the column.
RECURSIVE add_special_indexes_first_only(_, _, _, _)
add_special_indexes_first_only(field_values, indexes, column, value) ==
    IF indexes = <<>> THEN field_values
    ELSE Put(field_values, indexed_column_name(Head(indexes), column),
             prep_value_for_database(Head(indexes), value))

\* for index in special_indexes_for_column(model, field.column): ...
RECURSIVE add_special_indexes(_, _, _, _)
add_special_indexes(field_values, indexes, column, value) ==
    IF indexes = <<>> THEN field_values
    ELSE add_special_indexes(
             Put(field_values, indexed_column_name(Head(indexes), column),
                 prep_value_for_database(Head(indexes), value)),
             Tail(indexes), column, value)

\* for field in fields: the field values, the primary key and the exception
\* raised, from acc.
RECURSIVE convert_fields(_, _, _, _, _)
convert_fields(fields, values, reg, root, acc) ==
    IF fields = <<>> THEN acc
    ELSE LET field == Head(fields)
             value == values[field.column]
             is_primary_key == field.primary_key /\ field.model = root.db_table
         IN  IF value_is_rejected(field, value)
             THEN [ acc EXCEPT !.raised = "IntegrityError" ]
             ELSE convert_fields(Tail(fields), values, reg, root,
                    [ acc EXCEPT
                        !.primary_key = IF is_primary_key THEN value ELSE @,
                        !.field_values =
                            add_special_indexes(
                                IF is_primary_key THEN @ ELSE Put(@, field.column, value),
                                special_indexes_for_column(reg, field.column),
                                field.column, value) ])

\* django_instance_to_entity(connection, model, fields, raw, instance), the
\* instance given by the value each of its fields resolves to.
instance_to_entity(model, fields, values, reg) ==
    LET db_table == get_datastore_kind(model)
        r == convert_fields(extended_fields(model, fields), values, reg,
                            inheritance_root(model),
                            [ field_values |-> NoProps, primary_key |-> None, raised |-> "" ])
        kwargs == entity_kwargs(r.primary_key)
    IN  IF r.raised # "" THEN Built(TRUE, r.raised, "", None, FALSE, NoProps)
        ELSE IF kwargs.raised # ""
        THEN Built(TRUE, kwargs.raised, "", None, kwargs.warned, NoProps)
        ELSE Built(TRUE, "", db_table, kwargs.id_or_name, kwargs.warned,
                   IF uses_inheritance(model)
                   THEN Put(r.field_values, "class", ListVal(class_list(model)))
                   ELSE r.field_values)

SomeText == << "a", "B" >>

\* The columns of an instance of the model.
ColumnsOf(model) ==
    { extended_fields(model, model.fields)[i].column :
        i \in 1..Len(extended_fields(model, model.fields)) }

\* The values a column of an instance can resolve to.
ColumnValues(column) ==
    IF column = "id" THEN { None, IntVal(0), IntVal(7), StrVal(SomeText), FloatVal(1) }
    ELSE IF column = "base_ptr_id" THEN { None, IntVal(7) }
    ELSE { None, StrVal(SomeText) }

\* The registries: which indexes are registered for which column.
Registries ==
    { NoRegistry,
      [ NoRegistry EXCEPT !["title"] = << "iexact" >> ],
      [ NoRegistry EXCEPT !["title"] = << "iexact", "contains" >>, !["nick"] = << "contains" >> ],
      [ NoRegistry EXCEPT !["id"] = << "iexact" >>, !["note"] = << "iexact" >> ] }

InitEntity ==
    /\ emodel \in { PlainMeta, ChildMeta }
    /\ evalues \in { v \in [ ColumnsOf(emodel) ->
                               UNION { ColumnValues(c) : c \in ColumnsOf(emodel) } ] :
                       \A c \in ColumnsOf(emodel) : v[c] \in ColumnValues(c) }
    /\ registry \in Registries
    /\ built = NotBuilt
    /\ IdleCache /\ InitCmdIdle /\ IdleKey /\ IdleMapper /\ IdleCodec /\ IdleIAP /\ IdleMW

\* django_instance_to_entity is called for the instance.
BuildEntity ==
    /\ ~built.done
    /\ built' = instance_to_entity(emodel, emodel.fields, evalues, registry)
    /\ UNCHANGED <<emodel, evalues, registry, cache, cacheVars, cmdVars, cursor, fetchVars,
                   keyVars, mapperVars, codecVars, iapVars, mwVars>>

NextEntity == BuildEntity

SpecEntity == InitEntity /\ [][NextEntity]_vars

----------------------------------------------------------------------------
(* Writing and reading values through the codec: specification SpecCodec *)

\* The fields values are written and read for, one or two per logical type.
CodecFields ==
    { CodecField("CharField", 0, 0), CodecField("TextField", 0, 0),
      CodecField("BlobField", 0, 0), CodecField("DateField", 0, 0),
      CodecField("DateTimeField", 0, 0), CodecField("TimeField", 0, 0),
      CodecField("DecimalField", 4, 2), CodecField("IntegerField", 0, 0),
      CodecField("AutoField", 0, 0), CodecField("ForeignKey", 0, 0),
      CodecField("ListField", 0, 0) }

\* The non-null values of a field's logical type. Under USE_TZ datetimes are
\* aware, without it they are naive.
CodecValues(field) ==
    CASE db_type(field) = "string" ->
            { StrVal(<<>>), StrVal(SomeText), BytesVal(SomeText) }
      [] db_type(field) = "text" ->
            { StrVal(<<>>), StrVal(SomeText), BytesVal(SomeText) }
      [] db_type(field) = "bytes" -> { BytesVal(<<>>), BytesVal(SomeText) }
      [] db_type(field) = "date" -> { DateVal(d) : d \in 0..MaxDays }
      [] db_type(field) = "datetime" ->
            { DateTimeVal(u, tz) : u \in 0..(MaxDays * UnitsPerDay),
                                   tz \in IF use_tz THEN { UTC, << "+1" >> } ELSE { <<>> } }
      [] db_type(field) = "time" -> { TimeVal(u, <<>>) : u \in 0..(UnitsPerDay - 1) }
      [] db_type(field) = "decimal" ->
            { DecimalVal(0 - 150), DecimalVal(0), DecimalVal(5), DecimalVal(9999) }
      [] db_type(field) = "integer" -> { IntVal(0 - 3), IntVal(0), IntVal(5) }
      [] db_type(field) = "key" ->
            { IntVal(1), IntVal(7) }
            \cup (IF field.class = "ForeignKey" THEN { StrVal(SomeText) } ELSE {})
      [] db_type(field) = "list" -> { ListVal(<<>>), ListVal(SomeText) }

InitCodec ==
    /\ use_tz \in BOOLEAN
    /\ cfield \in CodecFields
    /\ cvalue \in CodecValues(cfield) \cup { None }
    /\ native = Unset
    /\ readback = Unset
    /\ rawread = Unset
    /\ IdleCache /\ InitCmdIdle /\ IdleKey /\ IdleMapper /\ IdleEntity /\ IdleIAP /\ IdleMW

\* The value is prepared for the store.
Encode ==
    /\ native = Unset
    /\ native' = value_for_db(cvalue, cfield)
    /\ UNCHANGED <<use_tz, cfield, cvalue, readback, rawread, cache, cacheVars, cmdVars, cursor,
                   fetchVars, keyVars, mapperVars, entityVars, iapVars, mwVars>>

\* The stored form comes back as it was stored (a point read) and is converted.
Decode ==
    /\ native # Unset /\ native.t # "raise" /\ readback = Unset
    /\ readback' = convert_values(native, cfield)
    /\ UNCHANGED <<use_tz, cfield, cvalue, native, rawread, cache, cacheVars, cmdVars, cursor,
                   fetchVars, keyVars, mapperVars, entityVars, iapVars, mwVars>>

\* The stored datetime comes back from a query as a raw integer and is converted.
DecodeRaw ==
    /\ native.t = "datetime" /\ rawread = Unset
    /\ rawread' = convert_values(IntVal(native.i), cfield)
    /\ UNCHANGED <<use_tz, cfield, cvalue, native, readback, cache, cacheVars, cmdVars, cursor,
                   fetchVars, keyVars, mapperVars, entityVars, iapVars, mwVars>>

NextCodec == Encode \/ Decode \/ DecodeRaw

SpecCodec == InitCodec /\ [][NextCodec]_vars

----------------------------------------------------------------------------
(* Signing in through IAP: specification SpecIAP *)

\* A row of the User table. email_lower and username_lower are computed from
\* email and username when the row is saved.
User(google_iap_id, google_iap_namespace, email, username, password) ==
    [ google_iap_id |-> google_iap_id, google_iap_namespace |-> google_iap_namespace,
      email |-> email, username |-> username, password |-> password ]

\* The user a call returned, by primary key.
UserRef(key) == [t |-> "user", i |-> key, s |-> <<>>]

\* ch in text
Contains(text, ch) == \E i \in 1..Len(text) : text[i] = ch

\* text.split(sep, 1)
SplitFirst(text, sep) ==
    IF Contains(text, sep)
    THEN LET i == CHOOSE k \in 1..Len(text) :
                      text[k] = sep /\ \A j \in 1..(k - 1) : text[j] # sep
         IN << SubSeq(text, 1, i - 1), SubSeq(text, i + 1, Len(text)) >>
    ELSE << text >>

\* text.rsplit(sep, 1)
SplitLast(text, sep) ==
    IF Contains(text, sep)
    THEN LET i == CHOOSE k \in 1..Len(text) :
                      text[k] = sep /\ \A j \in (k + 1)..Len(text) : text[j] # sep
         IN << SubSeq(text, 1, i - 1), SubSeq(text, i + 1, Len(text)) >>
    ELSE << text >>

\* text.strip()
RECURSIVE Strip(_)
Strip(text) ==
    IF text = <<>> THEN text
    ELSE IF Head(text) = " " THEN Strip(Tail(text))
    ELSE IF text[Len(text)] = " " THEN Strip(SubSeq(text, 1, Len(text) - 1))
    ELSE text

\* UserManager.normalize_email (django.contrib.auth.base_user): the domain part
\* in lower case; an address without "@" is returned as it came.
normalize_email(email) ==
    IF Contains(Strip(email), "@")
    THEN LET halves == SplitLast(Strip(email), "@")
         IN halves[1] \o << "@" >> \o Lower(halves[2])
    ELSE email

email_lower(user) == Lower(user.email.s)

username_lower(user) ==
    IF user.username.t = "str" THEN StrVal(Lower(user.username.s)) ELSE None

\* A username is in use, whatever its case.
username_taken(table, username) ==
    \E i \in 1..Len(table) : username_lower(table[i]) = StrVal(Lower(username))

\* _generate_unused_username (djangae.contrib.googleauth.backends): the ideal
\* username, or, when it is in use, the ideal username followed by random
\* digits.
generate_unused_username(table, ideal, digits) ==
    IF ~username_taken(table, ideal) THEN ideal ELSE ideal \o << "-" >> \o digits

\* user.set_unusable_password(): a password no hash starts with.
UnusablePassword == << "!" >>

\* user.has_usable_password()
has_usable_password(user) == ~( user.password # <<>> /\ Head(user.password) = "!" )

\* User.objects.filter(google_iap_id=user_id)
by_google_iap_id(table, user_id) ==
    { i \in 1..Len(table) : table[i].google_iap_id = StrVal(user_id) }

\* User.objects.filter(email_lower=email)
by_email_lower(table, email) ==
    { i \in 1..Len(table) : email_lower(table[i]) = email }

\* .first(): the match with the lowest primary key, 0 for no match.
first(matches) ==
    IF matches = {} THEN 0 ELSE CHOOSE i \in matches : \A j \in matches : i <= j

\* How a call ends: the table it leaves and what it returns or raises.
AuthOutcome(table, result) == [ users |-> table, result |-> result ]

\* The atomic block of IAPBackend.authenticate.
lookup_or_create_without_unusable_password(table, namespace, user_id, email, username, digits) ==
    LET by_id == first(by_google_iap_id(table, user_id))
        by_email == first(by_email_lower(table, Lower(email)))
        found == IF by_id # 0 THEN by_id
                 ELSE IF by_email # 0 /\ Truthy(table[by_email].google_iap_id) THEN 0
                 ELSE by_email
    IN IF found # 0
       THEN LET user == table[found]
                claimed == IF ~Truthy(user.google_iap_id)
                           THEN [ user EXCEPT !.google_iap_id = StrVal(user_id),
                                              !.google_iap_namespace = StrVal(namespace) ]
                           ELSE user
            IN IF Truthy(user.google_iap_id) /\ user.google_iap_id # StrVal(user_id)
               THEN AuthOutcome(table, Raise("AssertionError"))
               ELSE AuthOutcome([ table EXCEPT ![found] = [ claimed EXCEPT !.email = StrVal(email) ] ],
                            UserRef(found))
       ELSE AuthOutcome(Append(table,
                           User(StrVal(user_id), StrVal(namespace), StrVal(email),
                                StrVal(generate_unused_username(table, username, digits)),
                                <<>>)),
                    UserRef(Len(table) + 1))

lookup_or_create_renaming(table, namespace, user_id, email, username, digits) ==
    LET by_id == first(by_google_iap_id(table, user_id))
        by_email == first(by_email_lower(table, Lower(email)))
        found == IF by_id # 0 THEN by_id
                 ELSE IF by_email # 0 /\ Truthy(table[by_email].google_iap_id) THEN 0
                 ELSE by_email
    IN IF found # 0
       THEN LET user == table[found]
                claimed == IF ~Truthy(user.google_iap_id)
                           THEN [ user EXCEPT !.google_iap_id = StrVal(user_id),
                                              !.google_iap_namespace = StrVal(namespace) ]
                           ELSE user
            IN IF Truthy(user.google_iap_id) /\ user.google_iap_id # StrVal(user_id)
               THEN AuthOutcome(table, Raise("AssertionError"))
               ELSE AuthOutcome([ table EXCEPT ![found] = [ claimed EXCEPT !.email = StrVal(email),
                                                                      !.username = StrVal(username) ] ],
                            UserRef(found))
       ELSE AuthOutcome(Append(table,
                           User(StrVal(user_id), StrVal(namespace), StrVal(email),
                                StrVal(generate_unused_username(table, username, digits)),
                                UnusablePassword)),
                    UserRef(Len(table) + 1))

lookup_or_create_email_first(table, namespace, user_id, email, username, digits) ==
    LET by_id == first(by_google_iap_id(table, user_id))
        by_email == first(by_email_lower(table, Lower(email)))
        found == IF by_email # 0 /\ ~Truthy(table[by_email].google_iap_id) THEN by_email
                 ELSE by_id
    IN IF found # 0
       THEN LET user == table[found]
                claimed == IF ~Truthy(user.google_iap_id)
                           THEN [ user EXCEPT !.google_iap_id = StrVal(user_id),
                                              !.google_iap_namespace = StrVal(namespace) ]
                           ELSE user
            IN IF Truthy(user.google_iap_id) /\ user.google_iap_id # StrVal(user_id)
               THEN AuthOutcome(table, Raise("AssertionError"))
               ELSE AuthOutcome([ table EXCEPT ![found] = [ claimed EXCEPT !.email = StrVal(email) ] ],
                            UserRef(found))
       ELSE AuthOutcome(Append(table,
                           User(StrVal(user_id), StrVal(namespace), StrVal(email),
                                StrVal(generate_unused_username(table, username, digits)),
                                UnusablePassword)),
                    UserRef(Len(table) + 1))

lookup_or_create(table, namespace, user_id, email, username, digits) ==
    LET by_id == first(by_google_iap_id(table, user_id))
        by_email == first(by_email_lower(table, Lower(email)))
        \* an account found by email that has an IAP id of its own is left alone
        found == IF by_id # 0 THEN by_id
                 ELSE IF by_email # 0 /\ Truthy(table[by_email].google_iap_id) THEN 0
                 ELSE by_email
    IN IF found # 0
       THEN LET user == table[found]
                claimed == IF ~Truthy(user.google_iap_id)
                           THEN [ user EXCEPT !.google_iap_id = StrVal(user_id),
                                              !.google_iap_namespace = StrVal(namespace) ]
                           ELSE user
            IN IF Truthy(user.google_iap_id) /\ user.google_iap_id # StrVal(user_id)
               THEN AuthOutcome(table, Raise("AssertionError"))
               ELSE AuthOutcome([ table EXCEPT ![found] = [ claimed EXCEPT !.email = StrVal(email) ] ],
                            UserRef(found))
       ELSE AuthOutcome(Append(table,
                           User(StrVal(user_id), StrVal(namespace), StrVal(email),
                                StrVal(generate_unused_username(table, username, digits)),
                                UnusablePassword)),
                    UserRef(Len(table) + 1))

authenticate_subject_only(table, request, digits) ==
    IF ~Truthy(request.user_id) \/ ~Truthy(request.email)
    THEN AuthOutcome(table, None)
    ELSE IF ~Contains(request.user_id.s, ":") \/ ~Contains(request.email.s, ":")
    THEN AuthOutcome(table, None)
    ELSE LET namespace == SplitFirst(request.user_id.s, ":")[1]
             user_id == SplitFirst(request.user_id.s, ":")[2]
             header_email == SplitFirst(request.email.s, ":")[2]
             email == normalize_email(header_email)
             username == SplitFirst(email, "@")[1]
         IN IF ~request.through_local /\ ~request.audience
            THEN AuthOutcome(table, Raise("ImproperlyConfigured"))
            ELSE IF ~request.through_local /\ ~request.jwt.valid
            THEN AuthOutcome(table, Raise("SuspiciousOperation"))
            ELSE IF ~request.through_local
                    /\ request.jwt.sub # user_id
            THEN AuthOutcome(table, Raise("AssertionError"))
            ELSE IF email = <<>>
            THEN AuthOutcome(table, Raise("AssertionError"))
            ELSE lookup_or_create(table, namespace, user_id, email, username, digits)

authenticate_either_namespaced(table, request, digits) ==
    IF ~Truthy(request.user_id) \/ ~Truthy(request.email)
    THEN AuthOutcome(table, None)
    ELSE IF ~Contains(request.user_id.s, ":") /\ ~Contains(request.email.s, ":")
    THEN AuthOutcome(table, None)
    ELSE IF ~Contains(request.user_id.s, ":") \/ ~Contains(request.email.s, ":")
    THEN AuthOutcome(table, Raise("ValueError"))
    ELSE LET namespace == SplitFirst(request.user_id.s, ":")[1]
             user_id == SplitFirst(request.user_id.s, ":")[2]
             header_email == SplitFirst(request.email.s, ":")[2]
             email == normalize_email(header_email)
             username == SplitFirst(email, "@")[1]
         IN IF ~request.through_local /\ ~request.audience
            THEN AuthOutcome(table, Raise("ImproperlyConfigured"))
            ELSE IF ~request.through_local /\ ~request.jwt.valid
            THEN AuthOutcome(table, Raise("SuspiciousOperation"))
            ELSE IF ~request.through_local
                    /\ ( request.jwt.sub # user_id \/ request.jwt.email # header_email )
            THEN AuthOutcome(table, Raise("AssertionError"))
            ELSE IF email = <<>>
            THEN AuthOutcome(table, Raise("AssertionError"))
            ELSE lookup_or_create(table, namespace, user_id, email, username, digits)

\* IAPBackend.authenticate(request) on a User table; digits are the random
\* digits _generate_unused_username draws.
authenticate(table, request, digits) ==
    IF ~Truthy(request.user_id) \/ ~Truthy(request.email)
    THEN AuthOutcome(table, None)
    ELSE IF ~Contains(request.user_id.s, ":") \/ ~Contains(request.email.s, ":")
    THEN AuthOutcome(table, None)
    ELSE LET namespace == SplitFirst(request.user_id.s, ":")[1]
             user_id == SplitFirst(request.user_id.s, ":")[2]
             header_email == SplitFirst(request.email.s, ":")[2]
             email == normalize_email(header_email)
             username == SplitFirst(email, "@")[1]
         IN IF ~request.through_local /\ ~request.audience
            THEN AuthOutcome(table, Raise("ImproperlyConfigured"))
            ELSE IF ~request.through_local /\ ~request.jwt.valid
            THEN AuthOutcome(table, Raise("SuspiciousOperation"))
            ELSE IF ~request.through_local
                    /\ ( request.jwt.sub # user_id \/ request.jwt.email # header_email )
            THEN AuthOutcome(table, Raise("AssertionError"))
            ELSE IF email = <<>>
            THEN AuthOutcome(table, Raise("AssertionError"))
            ELSE lookup_or_create(table, namespace, user_id, email, username, digits)

\* The text of a header value.
HeaderText(name) ==
    CASE name = "" -> <<>>
      [] name = "1" -> << "1" >>
      [] name = "g:" -> << "g", ":" >>
      [] name = "g:1" -> << "g", ":", "1" >>
      [] name = "g:2" -> << "g", ":", "2" >>
      [] name = "b@n" -> << "b", "@", "n" >>
      [] name = "B@n" -> << "B", "@", "n" >>
      [] name = "g:b@n" -> << "g", ":", "b", "@", "n" >>
      [] name = "g:B@n" -> << "g", ":", "B", "@", "n" >>
      [] name = "g: b@B" -> << "g", ":", " ", "b", "@", "B" >>
      [] name = "g:n" -> << "g", ":", "n" >>

\* The values of the user-id header and of the email header.
IdHeaders ==
    { None } \cup { StrVal(HeaderText(h)) : h \in { "", "1", "g:", "g:1", "g:2" } }

EmailHeaders ==
    { None } \cup { StrVal(HeaderText(h)) :
                      h \in { "", "b@n", "g:", "g:b@n", "g:B@n", "g: b@B", "g:n" } }

\* What verify_token can make of the assertion.
JwtOutcomes ==
    { Jwt(FALSE, <<>>, <<>>) }
    \cup { Jwt(TRUE, HeaderText(sub), HeaderText(email)) :
             sub \in { "1" }, email \in { "b@n", "B@n" } }

\* The requests. What a call does not read is left at one value: the
\* verification inputs when the headers end the call, the audience and the
\* assertion when the request came through the local IAP middleware, the
\* assertion when there is no audience. A call the headers end has one header
\* that would pass, or none; a call that is verified carries one of the two
\* addresses an assertion can be signed for; a call that finds no audience or
\* an assertion that does not validate carries one pair of headers.
Requests ==
    { r \in { Request(user_id, email, through_local, audience, jwt) :
                user_id \in IdHeaders, email \in EmailHeaders,
                through_local \in BOOLEAN, audience \in BOOLEAN, jwt \in JwtOutcomes } :
        /\ authenticate(<<>>, r, <<>>).result = None
              => /\ r.through_local /\ r.audience /\ ~r.jwt.valid
                 /\ \/ r.user_id = StrVal(HeaderText("g:1"))
                    \/ r.email = StrVal(HeaderText("g:b@n"))
                    \/ r.user_id = None /\ r.email = None
        /\ r.through_local => ( r.audience /\ ~r.jwt.valid )
        /\ ~r.audience => ~r.jwt.valid
        /\ ~r.through_local
              => /\ r.user_id \in { StrVal(HeaderText("g:1")), StrVal(HeaderText("g:2")) }
                 /\ r.email \in { StrVal(HeaderText("g:b@n")), StrVal(HeaderText("g:B@n")) }
                 /\ ~r.jwt.valid
                       => /\ r.user_id = StrVal(HeaderText("g:1"))
                          /\ r.email = StrVal(HeaderText("g:b@n")) }

\* The digits _generate_unused_username can draw (two of the 10^5).
RandomDigits == { << "0", "0", "0", "0", "0" >>, << "0", "0", "0", "0", "1" >> }

\* The emails of the users created by other means than IAP.
SeedEmails == { HeaderText("b@n"), HeaderText("B@n") }

InitIAP ==
    /\ IdleIAP
    /\ IdleCache /\ InitCmdIdle /\ IdleKey /\ IdleMapper /\ IdleEntity /\ IdleCodec /\ IdleMW

\* User.objects.create(email=...): a user added by other means, before anybody
\* signs in through IAP, its email new whatever the case.
CreateUser ==
    /\ auths = 0
    /\ Len(users) < MaxUsers
    /\ \E email \in SeedEmails :
          /\ by_email_lower(users, Lower(email)) = {}
          /\ users' = Append(users, User(None, StrVal(<<>>), StrVal(email), None, <<>>))
    /\ UNCHANGED <<iap_request, iap_before, iap_result, returned_for, auths, cache, cacheVars, cmdVars,
                   cursor, fetchVars, keyVars, mapperVars, entityVars, codecVars, mwVars>>

\* The digits a call can draw: none unless the username it would give is in
\* use.
DigitsDrawn(table, request) ==
    IF /\ Truthy(request.email) /\ Contains(request.email.s, ":")
       /\ username_taken(table,
             SplitFirst(normalize_email(SplitFirst(request.email.s, ":")[2]), "@")[1])
    THEN RandomDigits
    ELSE { <<>> }

\* One IAPBackend.authenticate call. _generate_unused_username draws digits
\* until the username is not in use.
Authenticate ==
    /\ auths < MaxAuths
    /\ \E request \in Requests : \E digits \in DigitsDrawn(users, request) :
          LET out == authenticate(users, request, digits)
          IN /\ Len(out.users) <= MaxUsers
             /\ Len(out.users) > Len(users)
                   => ~username_taken(users, out.users[Len(out.users)].username.s)
             /\ users' = out.users
             /\ iap_request' = request
             /\ iap_before' = users
             /\ iap_result' = out.result
             /\ returned_for' =
                   IF out.result.t = "user"
                      /\ returned_for[SplitFirst(request.user_id.s, ":")[2]] = 0
                   THEN [ returned_for EXCEPT ![SplitFirst(request.user_id.s, ":")[2]] =
                                                 out.result.i ]
                   ELSE returned_for
    /\ auths' = auths + 1
    /\ UNCHANGED <<cache, cacheVars, cmdVars, cursor, fetchVars, keyVars, mapperVars,
                   entityVars, codecVars, mwVars>>

NextIAP == CreateUser \/ Authenticate

SpecIAP == InitIAP /\ [][NextIAP]_vars

----------------------------------------------------------------------------
(* Requests through the Google authentication middleware: specification SpecMW *)

\* What process_request holds while it runs: the session, the users,
\* django_user ("anonymous" for an AnonymousUser, "None", or a username),
\* request.user, the exception raised, the logins, logouts and saves so far,
\* and whether it has returned.
Frame(session, table, django_user, request_user, raised, events, returned) ==
    [ session |-> session, users |-> table, django_user |-> django_user,
      request_user |-> request_user, raised |-> raised, events |-> events,
      returned |-> returned ]

\* get_user(request) (django.contrib.auth): the user of the session, or an
\* AnonymousUser.
get_user(session, table) ==
    IF session.user # "" /\ session.backend # "" /\ table[session.user].exists
    THEN session.user
    ELSE "anonymous"

\* user.is_anonymous()
is_anonymous(user) == user = "anonymous"

\* isinstance(load_backend(backend_str), BaseAppEngineUserAPIBackend)
is_app_engine_backend(backend_str) ==
    backend_str \in { "AppEngineUserAPIBackend", "SubclassedBackend" }

\* login(request, user) (django.contrib.auth): the session becomes the user's,
\* under the backend that authenticated the user.
login(f, backend) ==
    [ f EXCEPT !.session = Session(f.django_user, backend),
               !.events = Append(@, << "login", f.django_user >>) ]

\* logout(request) (django.contrib.auth): the session is flushed.
logout(f) ==
    [ f EXCEPT !.session = NoSession, !.events = Append(@, << "logout" >>) ]

\* authenticate(google_user=google_user) (django.contrib.auth): None, or the
\* user whose username is the Google user's id, created when there is none;
\* outcome names the backend that accepted the Google user, "None" for none.
django_authenticate(f, google_user, outcome) ==
    IF outcome = "None"
    THEN [ f EXCEPT !.django_user = "None" ]
    ELSE [ f EXCEPT !.django_user = google_user.user_id,
                    !.users[google_user.user_id] =
                        IF @.exists THEN @
                        ELSE DjangoUser(TRUE, FALSE, FALSE, Lower(google_user.email)) ]

\* process_request, lines 15 to 35: an anonymous visitor with a Google user is
\* logged in; a session of no backend or of another backend is passed through.
log_in_or_pass_through_any_backend(f, google_user, outcome) ==
    IF is_anonymous(f.django_user) /\ google_user # NoGoogleUser
    THEN LET a == django_authenticate(f, google_user, outcome)
         IN IF a.django_user # "None" THEN login(a, outcome) ELSE a
    ELSE IF f.session.backend = ""
    THEN [ f EXCEPT !.request_user = f.django_user, !.returned = TRUE ]
    ELSE f

log_in_or_pass_through(f, google_user, outcome) ==
    IF is_anonymous(f.django_user) /\ google_user # NoGoogleUser
    THEN LET a == django_authenticate(f, google_user, outcome)
         IN IF a.django_user # "None" THEN login(a, outcome) ELSE a
    ELSE IF f.session.backend = ""
    THEN [ f EXCEPT !.request_user = f.django_user, !.returned = TRUE ]
    ELSE IF ~is_app_engine_backend(f.session.backend)
    THEN [ f EXCEPT !.request_user = f.django_user, !.returned = TRUE ]
    ELSE f

\* process_request, lines 39 to 51: the session follows the Google user.
\* django_user.is_anonymous() on None raises AttributeError.
follow_google_user_without_logout(f, google_user, outcome) ==
    IF f.django_user = "None"
    THEN [ f EXCEPT !.raised = "AttributeError" ]
    ELSE IF ~is_anonymous(f.django_user) /\ google_user = NoGoogleUser
    THEN [ logout(f) EXCEPT !.django_user = "None", !.request_user = "anonymous" ]
    ELSE IF ~is_anonymous(f.django_user) /\ f.django_user # google_user.user_id
    THEN LET a == django_authenticate(f, google_user, outcome)
             b == IF a.django_user # "None" THEN login(a, outcome) ELSE a
         IN [ b EXCEPT !.request_user =
                           IF b.django_user # "None" THEN b.django_user ELSE "anonymous" ]
    ELSE [ f EXCEPT !.request_user = f.django_user ]

follow_google_user(f, google_user, outcome) ==
    IF f.django_user = "None"
    THEN [ f EXCEPT !.raised = "AttributeError" ]
    ELSE IF ~is_anonymous(f.django_user) /\ google_user = NoGoogleUser
    THEN [ logout(f) EXCEPT !.django_user = "None", !.request_user = "anonymous" ]
    ELSE IF ~is_anonymous(f.django_user) /\ f.django_user # google_user.user_id
    THEN LET a == django_authenticate(logout(f), google_user, outcome)
             b == IF a.django_user # "None" THEN login(a, outcome) ELSE a
         IN [ b EXCEPT !.request_user =
                           IF b.django_user # "None" THEN b.django_user ELSE "anonymous" ]
    ELSE [ f EXCEPT !.request_user = f.django_user ]

\* process_request, lines 53 to 69: is_superuser, is_staff and email of the
\* user follow the Google user; the user is saved when one of them changed.
update_user(f, google_user) ==
    IF is_anonymous(f.request_user) THEN f
    ELSE IF google_user = NoGoogleUser THEN [ f EXCEPT !.raised = "AttributeError" ]
    ELSE LET user == f.users[f.django_user]
             google_email == normalize_email(google_user.email)
             promoted == IF google_user.is_admin # user.is_superuser
                         THEN [ user EXCEPT !.is_superuser = google_user.is_admin,
                                            !.is_staff = google_user.is_admin ]
                         ELSE user
             updated == IF user.email # google_email
                        THEN [ promoted EXCEPT !.email = google_email ]
                        ELSE promoted
         IN IF updated # user
            THEN [ f EXCEPT !.users[f.django_user] = updated,
                            !.events = Append(@, << "save", f.django_user >>) ]
            ELSE f

\* AuthenticationMiddleware.process_request(request)
process_request(session, table, google_user, outcome) ==
    LET f0 == Frame(session, table, get_user(session, table), "unset", "", <<>>, FALSE)
        f1 == log_in_or_pass_through(f0, google_user, outcome)
        f2 == IF f1.returned THEN f1 ELSE follow_google_user(f1, google_user, outcome)
    IN IF f2.returned \/ f2.raised # "" THEN f2 ELSE update_user(f2, google_user)

\* The Google users that can be signed in, each an administrator or not.
GoogleUsers ==
    { GoogleUser("1", << "b", "@", "N" >>, admin) : admin \in BOOLEAN }
    \cup { GoogleUser("2", << "n", "@", "n" >>, admin) : admin \in BOOLEAN }

\* What authenticate can answer.
AuthenticateOutcomes == { "None", "AppEngineUserAPIBackend", "SubclassedBackend" }

InitMW ==
    /\ IdleMW
    /\ IdleCache /\ InitCmdIdle /\ IdleKey /\ IdleMapper /\ IdleEntity /\ IdleCodec /\ IdleIAP

\* A visitor logs in through another backend, on a view of its own.
LoginOtherBackend ==
    /\ mw_session = NoSession
    /\ mw_session' = Session("bob", "ModelBackend")
    /\ mw_users' = [ mw_users EXCEPT !["bob"] =
                       IF @.exists THEN @
                       ELSE DjangoUser(TRUE, FALSE, TRUE, << "b", "@", "b" >>) ]
    /\ UNCHANGED <<mw_call, requests, cache, cacheVars, cmdVars, cursor, fetchVars, keyVars,
                   mapperVars, entityVars, codecVars, iapVars>>

\* A request passes through the middleware.
ProcessRequest ==
    /\ requests < MaxRequests
    /\ \E google_user \in GoogleUsers \cup { NoGoogleUser }, outcome \in AuthenticateOutcomes :
          LET f == process_request(mw_session, mw_users, google_user, outcome)
          IN /\ mw_session' = f.session
             /\ mw_users' = f.users
             /\ mw_call' = MwCall(mw_session, mw_users, google_user, outcome,
                                  f.request_user, f.raised, f.events, << f.session, f.users >>)
    /\ requests' = requests + 1
    /\ UNCHANGED <<cache, cacheVars, cmdVars, cursor, fetchVars, keyVars, mapperVars,
                   entityVars, codecVars, iapVars>>

NextMW == LoginOtherBackend \/ ProcessRequest

SpecMW == InitMW /\ [][NextMW]_vars

----------------------------------------------------------------------------
(* Claims about the cache helpers *)

SeqRange(q) == { q[i] : i \in 1..Len(q) }

\* The value an entity carries for a column: the property, or its identity for
\* a primary key column it does not hold as a property.
ValueCarried(entity, x) == IF Has(entity, x) THEN entity.props[x] ELSE entity.key

\* The cache key of a combination of columns for the values an entity carries.
CombinationKey(model, fields, entity) ==
    generate_unique_key(model, [ i \in 1..Len(fields) |-> << fields[i], ValueCarried(entity, fields[i]) >> ])

SameValues(e1, e2, fields) ==
    \A i \in 1..Len(fields) : ValueCarried(e1, fields[i]) = ValueCarried(e2, fields[i])

\* C1: when cache_entity is called for one entity and then (with every cache.set
\* taking effect) for a second entity carrying the same values for a unique
\* combination, get_entity_from_cache on the key of that combination, built from
\* the first entity's values, returns the second entity.
C1_MostRecentWriterWins ==
    ( /\ prevCall.op = "cache_entity"
      /\ lastCall.op = "cache_entity" /\ lastCall.effective )
    => \A i \in 1..Len(get_uniques_from_model(UserModel)) :
          LET fields == get_uniques_from_model(UserModel)[i]
          IN  SameValues(prevCall.entity, lastCall.entity, fields)
              => get_entity_from_cache(cache, CombinationKey(UserModel, fields, prevCall.entity))
                   = lastCall.entity

\* Two different records with the same email were cached one after the other and
\* the email key holds the second.
C1_Witness ==
    /\ prevCall.op = "cache_entity" /\ prevCall.effective
    /\ lastCall.op = "cache_entity" /\ lastCall.effective
    /\ prevCall.entity.key # lastCall.entity.key
    /\ SameValues(prevCall.entity, lastCall.entity, << "email" >>)
    /\ get_entity_from_cache(cache, CombinationKey(UserModel, << "email" >>, prevCall.entity))
         = lastCall.entity

\* The entity with its identity also held as the primary key property.
WithPk(model, entity) ==
    Entity(entity.key,
           [ x \in DOMAIN entity.props \cup { pk_column(model) } |->
               IF x = pk_column(model) THEN entity.key ELSE entity.props[x] ])

\* C4: an uncache_entity call whose deletes all take effect removes from the
\* cache exactly the keys cache_entity sets for that entity and nothing else;
\* those keys are one per unique_together combination and one per unique field,
\* and are the same whether or not the entity holds its primary key as a
\* property (the identity is substituted).
C4_UncacheDeletesWhatCacheSets ==
    [][ ( calls' = calls + 1 /\ lastCall'.op = "uncache_entity" /\ lastCall'.effective )
        => LET e    == lastCall'.entity
               keys == SeqRange(cache_entity_keys(UserModel, e))
           IN  /\ cache' = [ k \in DOMAIN cache \ keys |-> cache[k] ]
               /\ Len(cache_entity_keys(UserModel, e))
                    = Len(UserModel.unique_together)
                      + Cardinality({ i \in 1..Len(UserModel.fields) : UserModel.fields[i].unique })
               /\ cache_entity_keys(UserModel, e) = cache_entity_keys(UserModel, WithPk(UserModel, e))
      ]_vars

\* An entity without a primary key property was cached and then uncached, and
\* none of its unique combinations has a cache entry.
C4_Witness ==
    /\ prevCall.op = "cache_entity" /\ prevCall.effective
    /\ lastCall.op = "uncache_entity" /\ lastCall.effective
    /\ prevCall.entity = lastCall.entity
    /\ ~Has(lastCall.entity, "id")
    /\ \A i \in 1..Len(get_uniques_from_model(UserModel)) :
          CombinationKey(UserModel, get_uniques_from_model(UserModel)[i], lastCall.entity)
            \notin DOMAIN cache

\* C6: when a cache operation fails, cache_entity and uncache_entity return
\* without raising and get_entity_from_cache returns no entity.
C6_CacheFailureDegradesToMiss ==
    ( lastCall.op \in { "cache_entity", "uncache_entity", "get_entity_from_cache" }
      /\ ~lastCall.effective )
    => ( ~lastCall.raised /\ lastCall.result = NoEntity )

----------------------------------------------------------------------------
(* Claims about the commands run through Cursor.execute *)

\* C2: every entry of the unique-constraint cache is the snapshot of a record
\* whose store write has succeeded: at no point of an Insert or Update does the
\* cache hold a record that is not yet written or whose write failed.
C2_CacheOnlyAfterStoreWrite ==
    \A k \in DOMAIN cache : cache[k] \in written

\* An insert whose store write assigned the identity has ended and the cache
\* holds the written record.
C2_Witness ==
    /\ pc = "idle" /\ lastExec.kind = "insert" /\ ~lastExec.raised
    /\ \E k \in DOMAIN cache :
          /\ cache[k] = lastExec.items[1].new
          /\ cache[k] \in written

----------------------------------------------------------------------------
(* Claims about fetching *)

\* The row a non-aggregate select delivers for an entity.
ExpectedRow(entity, cols) ==
    [ i \in 1..Len(cols) |->
        IF cols[i] = "__key__" THEN entity.key ELSE entity.props[cols[i]] ]

\* C7: after an aggregate Select the cursor delivers exactly one row, the
\* 1-tuple of the count, and then signals exhaustion: a fetch call made after
\* that row was delivered returns None (fetchone), raises StopIteration (next)
\* or returns no further row (fetchmany), and fetchmany returns at most one row.
C7_AggregateYieldsOneRowThenStops ==
    ( select.results.t = "int" /\ fetched.op # "none" )
    => /\ Len(delivered) <= 1
       /\ \A i \in 1..Len(delivered) : delivered[i] = << select.results >>
       /\ ( fetched.op \in { "fetchone", "next" } => Len(delivered) = 1 )
       /\ ( Len(delivered) > Len(fetched.rows)
             => CASE fetched.op = "fetchone"  -> fetched.none
                  [] fetched.op = "next"      -> fetched.raised = "StopIteration"
                  [] fetched.op = "fetchmany" -> fetched.rows = <<>> )

\* C8: after a non-aggregate Select with result sequence R, the rows the fetch
\* calls have returned are the rows of the first entities of R, in order, each
\* once; fetchmany(n) returns at most n rows and fewer only when R is exhausted;
\* and a call made when R was exhausted returns None (fetchone) or [] (fetchmany).
C8_RowsInOrderEachOnce ==
    ( select.results.t = "iter" )
    => /\ select.pos <= Len(select.rows)
       /\ delivered = [ i \in 1..select.pos |->
                          ExpectedRow(select.rows[i], select.queried_fields) ]
       /\ fetched.raised \in { "", "StopIteration" }
       /\ ( fetched.op = "fetchmany"
             => /\ Len(fetched.rows) <= fetched.size
                /\ ( Len(fetched.rows) < fetched.size => Exhausted ) )
       /\ ( fetched.op = "fetchone"
             => ( fetched.none <=> fetched.rows = <<>> ) /\ ( fetched.none => Exhausted ) )
       /\ ( fetched.exhausted
             => /\ fetched.rows = <<>>
                /\ ( fetched.op = "fetchone" => fetched.none )
                /\ ( fetched.op = "next" => fetched.raised = "StopIteration" ) )

\* Two rows were fetched one by one, a fetchmany then came back short, and the
\* rows delivered are both rows of R.
C8_Witness ==
    /\ select.results.t = "iter"
    /\ Len(select.rows) = 2
    /\ fetched.op = "fetchmany" /\ fetched.size = 2 /\ Len(fetched.rows) = 1
    /\ Len(delivered) = 2
    /\ Exhausted

----------------------------------------------------------------------------
(* Claims about generate_unique_key and about primary keys *)

\* 'field:value' parts of a set of pairs joined with '|' in ascending order of
\* the field name.
RECURSIVE AscendingJoin(_)
AscendingJoin(pairs) ==
    IF pairs = {} THEN <<>>
    ELSE LET m == CHOOSE p \in pairs : \A q \in pairs : ~StrLess(Chars(q[1]), Chars(p[1]))
         IN  Chars(m[1]) \o << ":" >> \o FormatValue(m[2])
             \o (IF pairs = {m} THEN <<>> ELSE << "|" >>)
             \o AscendingJoin(pairs \ {m})

\* C5: generate_unique_key returns 'app_label.kind|' followed by the
\* 'field:value' parts joined with '|' in ascending field-name order, and
\* returns the same key for every ordering of the same pairs.
C5_KeyIsOrderIndependent ==
    unique_key # <<>>
    => /\ unique_key = first_key
       /\ unique_key = Chars(kmodel.app_label) \o << "." >>
                          \o Chars(get_datastore_kind(kmodel)) \o << "|" >>
                          \o AscendingJoin(SeqRange(parts))

\* The key of three pairs listed in descending field order was generated after
\* reordering and is the key of the first ordering.
C5_Witness ==
    /\ Len(parts) = 3
    /\ StrLess(Chars(parts[3][1]), Chars(parts[2][1]))
    /\ StrLess(Chars(parts[2][1]), Chars(parts[1][1]))
    /\ unique_key # <<>>
    /\ unique_key = first_key

\* C10: for a text primary key, the identity the write path gives the entity
\* and the identity the lookup path derives are the same: the first 500
\* characters of the key, under the same kind.
C10_LookupFindsWrittenKey ==
    ( pk.t = "str" /\ entityOut.done /\ lookupOut.done )
    => /\ entityOut.raised = "" /\ lookupOut.raised = ""
       /\ entityOut.kind = lookupOut.kind
       /\ entityOut.id_or_name = lookupOut.id_or_name
       /\ entityOut.id_or_name = StrVal(SliceTo(pk.s, KeyLimit))

\* C11: a lookup with a text key longer than 500 characters emits the truncation
\* warning, as the write path does for that key.
C11_LookupWarnsOnOversizedKey ==
    ( pk.t = "str" /\ Len(pk.s) > KeyLimit /\ lookupOut.done )
    => /\ lookupOut.warned
       /\ ( entityOut.done => entityOut.warned = lookupOut.warned )

\* C12: on the write path the warning is emitted exactly when the supplied text
\* key is longer than 500 characters; a key of 500 characters or fewer is stored
\* unchanged and without a warning.
C12_WriteWarnsExactlyWhenOversized ==
    ( pk.t = "str" /\ pk.s # <<>> /\ entityOut.done )
    => /\ entityOut.warned <=> Len(pk.s) > KeyLimit
       /\ ( Len(pk.s) <= KeyLimit
             => entityOut.id_or_name = pk /\ ~entityOut.warned )

\* C14: the identity of the entity is decided by the primary key value: an
\* integer key (0 included) is the numeric id, a text key is the name clamped to
\* 500 characters, an absent key gives no identity, and a key of another type
\* raises an error.
C14_IdentityFromPrimaryKey ==
    entityOut.done
    => CASE pk.t = "int"  -> entityOut.raised = "" /\ entityOut.id_or_name = pk
         [] pk.t = "str"  -> /\ entityOut.raised = ""
                             /\ entityOut.id_or_name = StrVal(SliceTo(pk.s, KeyLimit))
         [] pk.t = "none" -> entityOut.raised = "" /\ entityOut.id_or_name = None
         [] OTHER         -> entityOut.raised # ""

----------------------------------------------------------------------------
(* Claims about django_instance_to_entity on whole instances *)

\* The fields of the instance, the parents' included.
FieldsOf(model) == extended_fields(model, model.fields)

\* Some field that is neither nullable nor a primary key resolves to None.
RequiredFieldIsNone(model, values) ==
    \E i \in 1..Len(FieldsOf(model)) :
        /\ ~FieldsOf(model)[i].null
        /\ ~FieldsOf(model)[i].primary_key
        /\ values[FieldsOf(model)[i].column] = None

\* C13: django_instance_to_entity raises IntegrityError and produces no entity
\* whenever a field that is neither nullable nor a primary key resolves to None,
\* and does not raise it for a None in a nullable field or a primary key field.
C13_NoneInRequiredFieldIsRejected ==
    built.done
    => /\ RequiredFieldIsNone(emodel, evalues)
            => built.raised = "IntegrityError" /\ built.kind = "" /\ built.props = NoProps
       /\ ~RequiredFieldIsNone(emodel, evalues) => built.raised # "IntegrityError"

\* A Child instance whose Base field title is None (and whose own required
\* field is set) was refused.
C13_Witness ==
    /\ built.done /\ emodel = ChildMeta
    /\ evalues["title"] = None /\ evalues["nick"] # None
    /\ built.raised = "IntegrityError"

\* C15 as stated: the entity of a Child instance has the Child kind and the
\* 'class' list [Base_kind, Child_kind], and carries the fields of both.
C15_ChildKindAndBaseFirst ==
    ( built.done /\ built.raised = "" /\ emodel = ChildMeta )
    => /\ built.kind = ChildMeta.db_table
       /\ "class" \in DOMAIN built.props
       /\ built.props["class"] = ListVal(<< BaseMeta.db_table, ChildMeta.db_table >>)

\* C15 amended: the entity of a Child instance has the kind of the concrete root
\* parent (Base), its 'class' list is [Child_kind, Base_kind] in that order, and
\* it holds the value of every field of Child and of Base but the identity.
C15_RootKindAndChildFirst ==
    ( built.done /\ built.raised = "" /\ emodel = ChildMeta )
    => /\ built.kind = BaseMeta.db_table
       /\ "class" \in DOMAIN built.props
       /\ built.props["class"] = ListVal(<< ChildMeta.db_table, BaseMeta.db_table >>)
       /\ \A c \in { "base_ptr_id", "nick", "bio", "title", "note" } :
             c \in DOMAIN built.props /\ built.props[c] = evalues[c]

\* A Child instance with every field set was converted.
C15_Witness ==
    /\ built.done /\ built.raised = "" /\ emodel = ChildMeta
    /\ \A c \in DOMAIN evalues : evalues[c] # None
    /\ built.kind = "base"
    /\ built.id_or_name = IntVal(7)

\* C16: every entity django_instance_to_entity produces holds, for every field
\* and every index registered for the field's column, the derived column with
\* the transformed value of the field, and no derived column for a field
\* without a registered index.
C16_DerivedColumnsPresent ==
    ( built.done /\ built.raised = "" )
    => /\ \A i \in 1..Len(FieldsOf(emodel)) :
            LET column == FieldsOf(emodel)[i].column
                idx    == special_indexes_for_column(registry, column)
            IN  /\ \A j \in 1..Len(idx) :
                      /\ indexed_column_name(idx[j], column) \in DOMAIN built.props
                      /\ built.props[indexed_column_name(idx[j], column)]
                           = prep_value_for_database(idx[j], evalues[column])
                /\ idx = <<>> =>
                      \A t \in { "iexact", "contains" } :
                          indexed_column_name(t, column) \notin DOMAIN built.props

\* An entity with both derived columns of title, lower-cased and listed.
C16_Witness ==
    /\ built.done /\ built.raised = ""
    /\ registry["title"] = << "iexact", "contains" >>
    /\ evalues["title"] = StrVal(SomeText)
    /\ "_idx_iexact_title" \in DOMAIN built.props
    /\ built.props["_idx_iexact_title"] = StrVal(<< "a", "b" >>)
    /\ built.props["_idx_contains_title"] = ListVal(SomeText)

----------------------------------------------------------------------------
(* Claims about the value codec *)

\* Python's a == b: texts and byte strings compare by their characters (Text and
\* Blob are text and byte strings), aware datetimes by their instant, and a
\* naive and an aware datetime are never equal.
PyEq(a, b) ==
    IF a.t \in { "str", "bytestr", "Text", "Blob" } /\ b.t \in { "str", "bytestr", "Text", "Blob" }
    THEN a.s = b.s
    ELSE IF a.t = "datetime" /\ b.t = "datetime"
    THEN ( is_naive(a) <=> is_naive(b) ) /\ a.i - UtcOffset(a.s) = b.i - UtcOffset(b.s)
    ELSE a = b

C18_RawIntegerReadsLikeDatetime ==
    ( cvalue # None /\ db_type(cfield) \in { "date", "time", "datetime" }
      /\ readback # Unset /\ rawread # Unset )
    => /\ readback.t # "raise" /\ rawread.t # "raise"
       /\ rawread = readback
       /\ ( is_aware(rawread) => use_tz )

----------------------------------------------------------------------------
(* Claims about IAPBackend.authenticate *)

\* The last call's headers are both present and namespaced.
HeadersNamespaced ==
    /\ iap_request.user_id.t = "str" /\ Contains(iap_request.user_id.s, ":")
    /\ iap_request.email.t = "str" /\ Contains(iap_request.email.s, ":")

\* The id and the email of the last call's headers, after the namespace prefix.
HeaderId == SplitFirst(iap_request.user_id.s, ":")[2]
HeaderEmail == SplitFirst(iap_request.email.s, ":")[2]

\* The last call passes the IAP verification, or needs none.
HeadersVerified ==
    \/ iap_request.through_local
    \/ /\ iap_request.audience /\ iap_request.jwt.valid
       /\ iap_request.jwt.sub = HeaderId /\ iap_request.jwt.email = HeaderEmail

\* The last call was made with valid namespaced headers carrying an email.
ValidCall == auths > 0 /\ HeadersNamespaced /\ HeadersVerified /\ HeaderEmail # <<>>

\* The rows the last call found with the id of its header.
BeforeWithId ==
    { i \in 1..Len(iap_before) : iap_before[i].google_iap_id = StrVal(HeaderId) }

\* The rows the last call found with the email of its header, whatever the case.
BeforeWithEmail ==
    { i \in 1..Len(iap_before) :
        Lower(iap_before[i].email.s) = Lower(normalize_email(HeaderEmail)) }

\* The part of the header email before "@".
LocalPart == SplitFirst(normalize_email(HeaderEmail), "@")[1]

C20_EmailChangeKeepsUsernameAndId ==
    ( ValidCall /\ BeforeWithId # {} )
    => \A i \in BeforeWithId :
          iap_before[i].email # StrVal(normalize_email(HeaderEmail))
          => /\ Len(users) = Len(iap_before)
             /\ users[i].email = StrVal(normalize_email(HeaderEmail))
             /\ users[i].username = iap_before[i].username
             /\ users[i].google_iap_id = iap_before[i].google_iap_id

\* A user known by its id signed in again with an email whose local part is not
\* its username, and was returned.
C20_Witness ==
    /\ ValidCall
    /\ \E i \in BeforeWithId :
          /\ iap_before[i].email # StrVal(normalize_email(HeaderEmail))
          /\ iap_before[i].username # StrVal(LocalPart)
          /\ users[i].email = StrVal(normalize_email(HeaderEmail))
          /\ iap_result = UserRef(i)

\* C21: no two users have emails that differ in case alone; and a call whose
\* email matches, whatever the case, a user that has no IAP id is given that
\* user, with the id attached and the email as the call spelt it, and adds none.
C21_NoEmailsDifferingInCaseAlone ==
    /\ \A i, j \in 1..Len(users) :
          Lower(users[i].email.s) = Lower(users[j].email.s) => users[i].email = users[j].email
    /\ ( ValidCall /\ BeforeWithId = {}
         /\ \E i \in BeforeWithEmail : ~Truthy(iap_before[i].google_iap_id) )
       => /\ Len(users) = Len(iap_before)
          /\ \E i \in BeforeWithEmail :
                /\ iap_result = UserRef(i)
                /\ users[i].google_iap_id = StrVal(HeaderId)
                /\ users[i].email = StrVal(normalize_email(HeaderEmail))

\* The last call neither changed nor returned the user at position i.
LeftAlone(i) == users[i] = iap_before[i] /\ iap_result # UserRef(i)

\* C22: a call never changes a non-empty google_iap_id; a user with the id of
\* the headers is the one returned, whatever users have the email; and a user
\* found by email that has another IAP id is neither changed nor returned.
C22_IapIdIsNeverTakenOver ==
    auths > 0
    => /\ Len(users) >= Len(iap_before)
       /\ \A i \in 1..Len(iap_before) :
             Truthy(iap_before[i].google_iap_id)
             => users[i].google_iap_id = iap_before[i].google_iap_id
       /\ ( ValidCall /\ BeforeWithId # {} ) => iap_result = UserRef(first(BeforeWithId))
       /\ ( ValidCall /\ BeforeWithId = {} )
          => \A i \in BeforeWithEmail :
                Truthy(iap_before[i].google_iap_id) => LeftAlone(i)

\* A call with a new id and the email of a user that has an IAP id created a
\* user of its own and left that user alone.
C22_Witness ==
    /\ ValidCall /\ BeforeWithId = {}
    /\ \E i \in BeforeWithEmail : Truthy(iap_before[i].google_iap_id) /\ LeftAlone(i)
    /\ iap_result = UserRef(Len(iap_before) + 1)

\* C23: a call that did not come through the local IAP middleware creates,
\* changes or returns a user only when the assertion validates against the
\* audience and its subject and email are those of the headers; without the
\* audience setting it raises ImproperlyConfigured, on a validation failure
\* SuspiciousOperation, on a mismatch AssertionError, the table unchanged.
C23_OnlyVerifiedCallsTouchUsers ==
    ( auths > 0 /\ HeadersNamespaced /\ ~iap_request.through_local )
    => /\ ( users # iap_before \/ iap_result.t = "user" ) => HeadersVerified
       /\ ~iap_request.audience
             => iap_result = Raise("ImproperlyConfigured") /\ users = iap_before
       /\ ( iap_request.audience /\ ~iap_request.jwt.valid )
             => iap_result = Raise("SuspiciousOperation") /\ users = iap_before
       /\ ( iap_request.audience /\ iap_request.jwt.valid /\ ~HeadersVerified )
             => iap_result = Raise("AssertionError") /\ users = iap_before

\* An assertion signed for another email was turned down after a verified call
\* had created a user.
C23_Witness ==
    /\ auths > 0 /\ HeadersNamespaced /\ ~iap_request.through_local
    /\ iap_request.jwt.valid /\ iap_request.jwt.sub = HeaderId
    /\ iap_request.jwt.email # HeaderEmail
    /\ iap_result = Raise("AssertionError")
    /\ \E i \in 1..Len(users) : Truthy(users[i].google_iap_id)

\* C24: a call whose user-id header or email header is missing, empty or has
\* no ":" returns None and leaves the table as it was.
C24_UnnamespacedHeadersReturnNone ==
    ( auths > 0 /\ ~HeadersNamespaced ) => iap_result = None /\ users = iap_before

\* A call with an email header that has no namespace returned None although
\* its id header names a user.
C24_Witness ==
    /\ auths > 0
    /\ iap_request.user_id.t = "str" /\ Contains(iap_request.user_id.s, ":")
    /\ iap_request.email.t = "str" /\ ~Contains(iap_request.email.s, ":")
    /\ \E i \in 1..Len(users) : users[i].google_iap_id = StrVal(HeaderId)
    /\ iap_result = None

\* C25: at most one user has any given google_iap_id, and a call carrying an
\* id returns the user that the first call carrying that id returned.
C25_OneUserPerIapId ==
    /\ \A i, j \in 1..Len(users) :
          ( users[i].google_iap_id # None
            /\ users[i].google_iap_id = users[j].google_iap_id ) => i = j
    /\ ( ValidCall /\ iap_result.t = "user" ) => iap_result.i = returned_for[HeaderId]

----------------------------------------------------------------------------
(* Claims about absent values in the codec *)

\* C29: for a field of any db type, value_for_db(None, field) is None and
\* convert_values(None, field) is None and raises nothing.
C29_NoneStaysNone ==
    cvalue = None
    => /\ native # Unset => native = None
       /\ readback # Unset => readback = None

----------------------------------------------------------------------------
(* Claims about AuthenticationMiddleware.process_request *)

\* The user the last call found in the session: "anonymous" for none.
SessionUser == get_user(mw_call.session, mw_call.users)

\* C26: whatever the session, the Google user and the answer of authenticate,
\* process_request raises nothing and leaves request.user an authenticated
\* user or an anonymous user.
C26_RequestUserAlwaysSet ==
    requests > 0
    => /\ mw_call.raised = ""
       /\ mw_call.request_user \in Usernames \cup { "anonymous" }

\* C27: when the session user was authenticated by a backend that is not the
\* App Engine user-API backend or a subclass, the call logs nobody in or out
\* and saves nothing: request.user is the session user, and the session and
\* the users are as they were.
C27_OtherBackendSessionUntouched ==
    ( requests > 0 /\ ~is_anonymous(SessionUser)
      /\ ~is_app_engine_backend(mw_call.session.backend) )
    => /\ mw_call.events = <<>>
       /\ mw_call.raised = ""
       /\ mw_call.request_user = SessionUser
       /\ mw_call.session_left = mw_call.session
       /\ mw_call.users_left = mw_call.users

\* A request of a user of another backend came in while a Google
\* administrator with another email was signed in.
C27_Witness ==
    /\ requests > 0 /\ SessionUser = "bob"
    /\ mw_call.session.backend = "ModelBackend"
    /\ mw_call.google_user # NoGoogleUser /\ mw_call.google_user.is_admin
    /\ mw_call.request_user = "bob"

\* The last call logged the session out before any login.
LoggedOutFirst ==
    /\ mw_call.events # <<>>
    /\ Head(mw_call.events) = << "logout" >>

\* C28: after a call on a session of the App Engine user-API backend,
\* request.user is authenticated only if a Google user is signed in and has
\* request.user's username as user_id; with no Google user the session is
\* logged out and request.user is anonymous; with another Google user the old
\* session is logged out before the new user is logged in.
C28_SessionFollowsGoogleUser ==
    ( requests > 0 /\ is_app_engine_backend(mw_call.session.backend) )
    => /\ mw_call.request_user \in Usernames
             => /\ mw_call.google_user # NoGoogleUser
                /\ mw_call.request_user = mw_call.google_user.user_id
       /\ mw_call.google_user = NoGoogleUser
             => /\ mw_call.request_user = "anonymous"
                /\ mw_call.session_left = NoSession
                /\ << "logout" >> \in { mw_call.events[i] : i \in 1..Len(mw_call.events) }
       /\ ( mw_call.google_user # NoGoogleUser /\ ~is_anonymous(SessionUser)
            /\ SessionUser # mw_call.google_user.user_id )
             => /\ LoggedOutFirst
                /\ mw_call.session_left.user \in { "", mw_call.google_user.user_id }

\* The Google user changed and the new one was logged in after the logout.
C28_Witness ==
    /\ requests > 0 /\ is_app_engine_backend(mw_call.session.backend)
    /\ ~is_anonymous(SessionUser)
    /\ mw_call.google_user # NoGoogleUser
    /\ SessionUser # mw_call.google_user.user_id
    /\ mw_call.request_user = mw_call.google_user.user_id
    /\ Len(mw_call.events) >= 2
    /\ mw_call.events[2] = << "login", mw_call.google_user.user_id >>

============================================================================
